---- MODULE Spec2Model ----
(***************************************************************************)
(* A model of the infinite canvas of src/src/components/InfiniteCanvas.tsx *)
(* (the scene nodes DraggableResizable and DraggableResizableText, the     *)
(* InfiniteCanvas component that owns them) and of the persistence         *)
(* endpoint src/src/app/api/canvas/route.ts.                               *)
(*                                                                         *)
(* Numbers.  Scales and coordinates are JavaScript numbers; they are       *)
(* modelled as exact rationals <<n, d>> in lowest terms with d > 0.        *)
(* Pointer positions are drawn from points of the line through the origin  *)
(* with direction (4, 3), on which Math.hypot / Math.sqrt is rational.     *)
(***************************************************************************)
EXTENDS Integers, Sequences, FiniteSets, TLC

----------------------------------------------------------------------------
(* Rational arithmetic *)

Abs(i) == IF i < 0 THEN -i ELSE i

RECURSIVE Gcd(_, _)
Gcd(a, b) == IF b = 0 THEN a ELSE Gcd(b, a % b)

Rat(n, d) ==
    IF d = 1 THEN <<n, 1>>
    ELSE IF d = 0 THEN <<0, 0>>      \* an operand was NaN
    ELSE LET g == Gcd(Abs(n), Abs(d))
             s == IF d < 0 THEN -1 ELSE 1
         IN  <<(s * n) \div g, (s * d) \div g>>

RInt(i) == <<i, 1>>
RAdd(a, b) == Rat(a[1] * b[2] + b[1] * a[2], a[2] * b[2])
RSub(a, b) == Rat(a[1] * b[2] - b[1] * a[2], a[2] * b[2])
RMul(a, b) == Rat(a[1] * b[1], a[2] * b[2])
RDiv(a, b) == Rat(a[1] * b[2], a[2] * b[1])
RLe(a, b) == a[1] * b[2] <= b[1] * a[2]
RLt(a, b) == a[1] * b[2] < b[1] * a[2]
RAbs(a) == <<Abs(a[1]), a[2]>>
\* Math.min and Math.max: NaN when an argument is NaN
MathMin(a, b) ==
    IF a[2] = 0 \/ b[2] = 0 THEN <<0, 0>> ELSE IF RLe(a, b) THEN a ELSE b
MathMax(a, b) ==
    IF a[2] = 0 \/ b[2] = 0 THEN <<0, 0>> ELSE IF RLe(a, b) THEN b ELSE a
\* NaN, the value of 0 / 0; every comparison with it is false
NaN == <<0, 0>>
IsNaN(a) == a[2] = 0
\* Math.round: the nearest integer, halves rounded towards +infinity
MathRound(a) == RInt((2 * a[1] + a[2]) \div (2 * a[2]))

\* Math.hypot(dx, dy) and Math.sqrt(dx*dx + dy*dy), on the line 3*dx = 4*dy,
\* where the square root is 5/4 * |dx|.
Hypot(dx, dy) ==
    CASE RMul(RInt(3), dx) = RMul(RInt(4), dy) -> RMul(<<5, 4>>, RAbs(dx))

Point(px, py) == [x |-> px, y |-> py]
\* The k-th point of the line: (4k, 3k), at distance 5k from the origin.
LinePoint(k) == Point(RInt(4 * k), RInt(3 * k))
PSub(a, b) == Point(RSub(a.x, b.x), RSub(a.y, b.y))
PAdd(a, b) == Point(RAdd(a.x, b.x), RAdd(a.y, b.y))
PDivS(a, s) == Point(RDiv(a.x, s), RDiv(a.y, s))
Origin == Point(RInt(0), RInt(0))

----------------------------------------------------------------------------
(* Bounds of the model *)

\* node instances ever constructed in one run
MaxNodes == 3
\* values of Date.now() are 1 .. MaxClock
MaxClock == 2
\* pointer-down and wheel events in one run
MaxGestures == 3
\* pointer-move events in one run
MaxMoves == 2
\* keydown events in one run
MaxKeys == 3
\* POST requests in flight at a time
MaxInflight == 2

Pointers == {1, 2}
NoPointer == 0
NoNode == 0
NodeIds == 1 .. MaxNodes
\* the positions (e.global) of pointer events
GlobalPoints == {LinePoint(1), LinePoint(3), LinePoint(6), LinePoint(11)}

----------------------------------------------------------------------------
(* Image sources and textures *)

\* Sources that resolve to a texture, and the texture's intrinsic size.
GoodUrls == {"photo", "wide", "icon"}
\* "" is rejected by the validation of the source; "bad" passes it and fails to load.
BadUrls == {"", "bad"}
Urls == GoodUrls \cup BadUrls
TextureOf(url) ==
    CASE url = "photo" -> [w |-> 80, h |-> 60]
      [] url = "wide" -> [w |-> 800, h |-> 400]
      [] url = "icon" -> [w |-> 10, h |-> 10]
NoTexture == [w |-> 0, h |-> 0]
\* Assets.load(url) / PIXI.Texture.from(url) yield a usable texture
Resolves(url) == url \in GoodUrls
IntMin(a, b) == IF a <= b THEN a ELSE b
IntMax(a, b) == IF a <= b THEN b ELSE a

\* DraggableResizable.constructor: "Initial scale down if huge"
maxDim == 200
\* a constructor that never scales down
InitialScaleOne(tex) == RInt(1)
InitialScale(tex) == MathMin(RInt(1), Rat(maxDim, IntMax(tex.w, tex.h)))

\* DraggableResizable.getScaleConstraints
minPx == 20
maxScale == 8
getScaleConstraints(tex) ==
    [min |-> MathMax(<<1, 20>>, Rat(minPx, IntMin(tex.w, tex.h))),
     max |-> RInt(maxScale)]

\* DraggableResizableText: the measured size of a short one-line PIXI.Text
\* at fontSize 24
TextTexture == [w |-> 36, h |-> 27]
\* DraggableResizableText.onResizeMove: Math.max(0.1, Math.min(5, ...))
textMaxScale == 5
TextClamp(s) == MathMax(<<1, 10>>, MathMin(RInt(textMaxScale), s))

----------------------------------------------------------------------------
(* Scene nodes.  A node record holds the fields of one DraggableResizable  *)
(* (kind "image") or DraggableResizableText (kind "text") instance and the *)
(* values captured by the closures created with it.                        *)

\* selectedImage / selectedText: null, or { id, node, ... }
NoSel == [id |-> 0, node |-> NoNode]
Sel(i, n) == [id |-> i, node |-> n]

NoNodeRec ==
    [kind |-> "none", id |-> 0, pos |-> Origin, scale |-> RInt(1),
     tex |-> NoTexture, ready |-> FALSE, wired |-> FALSE, origin |-> "none",
     dragging |-> FALSE, dragPointerId |-> NoPointer, dragOffset |-> Origin,
     resizing |-> FALSE, resizePointerId |-> NoPointer,
     startProj |-> RInt(0), startScale |-> RInt(1),
     frameVisible |-> FALSE, rootListening |-> FALSE, clickTimeout |-> FALSE,
     capSelImage |-> NoSel, capSelText |-> NoSel, handleAt |-> Origin,
     destroyed |-> FALSE, inContainer |-> FALSE]

\* new DraggableResizable(texture, id), then the caller's node.x / node.y
\* assignment and node.hideSelection()
NewImageNode(tex, id, pos, origin, capImg) ==
    [NoNodeRec EXCEPT !.kind = "image", !.id = id, !.pos = pos,
                      !.scale = InitialScale(tex), !.startScale = InitialScale(tex),
                      !.tex = tex, !.ready = TRUE, !.wired = TRUE,
                      !.origin = origin, !.capSelImage = capImg]

\* new DraggableResizableText(text, id, font, color): this.text does not
\* exist until loadFontForPixi resolves (ready = FALSE); the frame is drawn
\* (and hidden) by _redrawFrame only then.
NewTextNode(id, pos, origin, capImg, capTxt) ==
    [NoNodeRec EXCEPT !.kind = "text", !.id = id, !.pos = pos,
                      !.tex = TextTexture, !.origin = origin,
                      !.capSelImage = capImg, !.capSelText = capTxt]

\* container.toLocal(global) and container.toGlobal(local): the container is
\* only translated, by the pan offset
toLocal(g, pan) == PSub(g, pan)
toGlobal(l, pan) == PAdd(l, pan)

\* ---- DraggableResizable (image)
ImageOnDragStart(nd, p, g) ==
    [nd EXCEPT !.dragging = TRUE, !.dragPointerId = p,
               !.dragOffset = PSub(g, nd.pos)]

\* an onDragMove that follows any pointer
ImageOnDragMoveAny(nd, p, g) ==
    IF ~nd.dragging THEN nd
    ELSE [nd EXCEPT !.pos = PSub(g, nd.dragOffset)]
ImageOnDragMove(nd, p, g) ==
    IF ~nd.dragging \/ p # nd.dragPointerId THEN nd
    ELSE [nd EXCEPT !.pos = PSub(g, nd.dragOffset)]

ImageDragEndEmits(nd, p) == p = nd.dragPointerId
ImageOnDragEnd(nd, p) ==
    IF p # nd.dragPointerId THEN nd
    ELSE [nd EXCEPT !.dragging = FALSE, !.dragPointerId = NoPointer]

ImageOnResizeStart(nd, p, g, pan) ==
    LET a == [nd EXCEPT !.resizing = TRUE, !.resizePointerId = p]
    IN  IF ~nd.inContainer THEN a
        ELSE LET thisGlobal == toGlobal(nd.pos, pan)
                 d == PSub(g, thisGlobal)
             IN  [a EXCEPT !.startProj = Hypot(d.x, d.y),
                           !.startScale = nd.scale,
                           !.rootListening = TRUE]

ImageOnResizeMove(nd, p, g, pan) ==
    IF ~nd.resizing \/ p # nd.resizePointerId \/ ~nd.inContainer THEN nd
    ELSE LET thisGlobal == toGlobal(nd.pos, pan)
             d == PSub(g, thisGlobal)
             currentProj == Hypot(d.x, d.y)
             c == getScaleConstraints(nd.tex)
             finalScale ==
                 IF nd.startProj = RInt(0)
                 THEN \* factor is 0 / 0 = NaN, or x / 0 = Infinity
                      IF currentProj = RInt(0) THEN NaN ELSE c.max
                 ELSE LET factor == RDiv(currentProj, nd.startProj)
                          newScale == RMul(nd.startScale, factor)
                      IN  MathMin(c.max, MathMax(c.min, newScale))
         IN  [nd EXCEPT !.scale = finalScale]

ImageResizeEndEmits(nd, p) == p = nd.resizePointerId
ImageOnResizeEnd(nd, p) ==
    IF p # nd.resizePointerId THEN nd
    ELSE [nd EXCEPT !.rootListening = IF nd.inContainer THEN FALSE ELSE @,
                    !.resizing = FALSE, !.resizePointerId = NoPointer]

\* ---- DraggableResizableText
\* _redrawFrame: the handle is drawn at the bottom-right corner of
\* this.text.getBounds(), the bounds in global coordinates, and the frame
\* and the handle are hidden
TextRedrawFrame(nd, pan) ==
    IF ~nd.ready THEN nd
    ELSE LET centre == IF nd.inContainer THEN toGlobal(nd.pos, pan) ELSE nd.pos
             halfW == RMul(Rat(nd.tex.w, 2), nd.scale)
             halfH == RMul(Rat(nd.tex.h, 2), nd.scale)
         IN  [nd EXCEPT !.handleAt = Point(RSub(RAdd(centre.x, halfW), RInt(6)),
                                          RSub(RAdd(centre.y, halfH), RInt(6))),
                        !.frameVisible = FALSE]

\* this.text.toLocal(e.global): the text is at the node's position and
\* carries the scale
TextOnDragStart(nd, p, g, pan) ==
    [nd EXCEPT !.dragging = TRUE, !.dragPointerId = p,
               !.dragOffset = PDivS(PSub(toLocal(g, pan), nd.pos), nd.scale)]

TextOnDragMove(nd, p, g, pan) ==
    IF nd.dragging /\ nd.dragPointerId = p /\ nd.inContainer
    THEN [nd EXCEPT !.pos = PSub(toLocal(g, pan), nd.dragOffset)]
    ELSE nd

TextDragEndEmits(nd, p) == nd.dragging /\ nd.dragPointerId = p
TextOnDragEnd(nd, p) ==
    IF nd.dragging /\ nd.dragPointerId = p
    THEN [nd EXCEPT !.dragging = FALSE, !.dragPointerId = NoPointer]
    ELSE nd

TextOnResizeStart(nd, p, g, pan) ==
    LET a == [nd EXCEPT !.resizing = TRUE, !.resizePointerId = p]
    IN  IF ~nd.inContainer THEN a
        ELSE LET d == PSub(toLocal(g, pan), nd.pos)
             IN  [a EXCEPT !.startProj = Hypot(d.x, d.y),
                           !.startScale = nd.scale,
                           !.rootListening = TRUE]

TextOnResizeMove(nd, p, g, pan) ==
    IF nd.resizing /\ nd.resizePointerId = p /\ nd.inContainer
    THEN LET d == PSub(toLocal(g, pan), nd.pos)
             currentProj == Hypot(d.x, d.y)
             newScale ==
                 IF nd.startProj = RInt(0)
                 THEN IF currentProj = RInt(0) THEN NaN ELSE RInt(textMaxScale)
                 ELSE TextClamp(RMul(nd.startScale,
                                     RDiv(currentProj, nd.startProj)))
         IN  TextRedrawFrame([nd EXCEPT !.scale = newScale], pan)
    ELSE nd

TextResizeEndEmits(nd, p) == nd.resizing /\ nd.resizePointerId = p
TextOnResizeEnd(nd, p) ==
    IF nd.resizing /\ nd.resizePointerId = p
    THEN [nd EXCEPT !.resizing = FALSE, !.resizePointerId = NoPointer,
                    !.rootListening = IF nd.inContainer THEN FALSE ELSE @]
    ELSE nd

\* ---- hit testing of a pointer event at global g
\* a.x - b.x and a * b as fractions that are not reduced (compared only)
QSub(a, b) == <<a[1] * b[2] - b[1] * a[2], a[2] * b[2]>>
QAdd(a, b) == <<a[1] * b[2] + b[1] * a[2], a[2] * b[2]>>
QMul(a, b) == <<a[1] * b[1], a[2] * b[2]>>
\* the pointer's offset from the node's position, in the node's frame
LocalOffset(nd, g, pan) ==
    Point(QSub(QSub(g.x, pan.x), nd.pos.x), QSub(QSub(g.y, pan.y), nd.pos.y))
HalfSize(nd) == Point(QMul(<<nd.tex.w, 2>>, nd.scale),
                      QMul(<<nd.tex.h, 2>>, nd.scale))
\* the sprite of an image / the PIXI.Text of a text, anchored at its centre
HitBody(nd, g, pan) ==
    /\ ~IsNaN(nd.scale)
    /\ LET d == LocalOffset(nd, g, pan)
           half == HalfSize(nd)
       IN  RLe(RAbs(d.x), half.x) /\ RLe(RAbs(d.y), half.y)
\* DraggableResizable._redrawFrame:
\* handle.hitArea = new PIXI.Rectangle(w/2 - 24, h/2 - 24, 48, 48)
ImageHitHandle(nd, g, pan) ==
    /\ nd.frameVisible /\ ~IsNaN(nd.scale)
    /\ LET d == LocalOffset(nd, g, pan)
           left == QSub(HalfSize(nd).x, RInt(24))
           top == QSub(HalfSize(nd).y, RInt(24))
       IN  /\ RLe(left, d.x) /\ RLt(d.x, QAdd(left, RInt(48)))
           /\ RLe(top, d.y) /\ RLt(d.y, QAdd(top, RInt(48)))
\* DraggableResizableText._redrawFrame: the 8 x 8 rectangle drawn at handleAt
TextHitHandle(nd, g, pan) ==
    /\ nd.frameVisible
    /\ LET d == LocalOffset(nd, g, pan)
       IN  /\ RLe(nd.handleAt.x, d.x) /\ RLt(d.x, QAdd(nd.handleAt.x, RInt(8)))
           /\ RLe(nd.handleAt.y, d.y) /\ RLt(d.y, QAdd(nd.handleAt.y, RInt(8)))
\* the part of the node that a pointer at g hits: an image's handle is added
\* after its sprite (on top of it), a text's PIXI.Text after its handle
HitPart(nd, g, pan) ==
    IF nd.kind = "image"
    THEN IF ImageHitHandle(nd, g, pan) THEN "handle"
         ELSE IF HitBody(nd, g, pan) THEN "body" ELSE "none"
    ELSE IF HitBody(nd, g, pan) THEN "body"
         ELSE IF TextHitHandle(nd, g, pan) THEN "handle" ELSE "none"

\* ---- either kind
onDragStart(nd, p, g, pan) ==
    IF nd.kind = "image" THEN ImageOnDragStart(nd, p, g)
    ELSE TextOnDragStart(nd, p, g, pan)
onDragMove(nd, p, g, pan) ==
    IF nd.kind = "image" THEN ImageOnDragMove(nd, p, g)
    ELSE TextOnDragMove(nd, p, g, pan)
onDragEnd(nd, p) ==
    IF nd.kind = "image" THEN ImageOnDragEnd(nd, p) ELSE TextOnDragEnd(nd, p)
DragEndEmits(nd, p) ==
    IF nd.kind = "image" THEN ImageDragEndEmits(nd, p) ELSE TextDragEndEmits(nd, p)
onResizeStart(nd, p, g, pan) ==
    IF nd.kind = "image" THEN ImageOnResizeStart(nd, p, g, pan)
    ELSE TextOnResizeStart(nd, p, g, pan)
onResizeMove(nd, p, g, pan) ==
    IF nd.kind = "image" THEN ImageOnResizeMove(nd, p, g, pan)
    ELSE TextOnResizeMove(nd, p, g, pan)
onResizeEnd(nd, p) ==
    IF nd.kind = "image" THEN ImageOnResizeEnd(nd, p) ELSE TextOnResizeEnd(nd, p)
ResizeEndEmits(nd, p) ==
    IF nd.kind = "image" THEN ImageResizeEndEmits(nd, p)
    ELSE TextResizeEndEmits(nd, p)

----------------------------------------------------------------------------
(* State of the InfiniteCanvas component *)

VARIABLES
    nodes,                \* NodeIds -> node record (the PIXI node instances)
    nNodes,               \* number of node instances constructed so far
    images,               \* useState images: sequence of [id, node, imageUrl]
    texts,                \* useState texts: sequence of [id, node, text, color, fontFamily]
    selectedImage,        \* useState selectedImage (NoSel is null)
    selectedText,         \* useState selectedText (NoSel is null)
    pan,                  \* container.x / container.y
    isPanning,            \* let isPanning
    lastPointerPosition,  \* let lastPointerPosition
    pressed,              \* the pointers that are down
    saveTimer,            \* saveDebounceRef.current and the window's active
                          \* save timers with their closures
    currentTool,          \* currentToolRef.current
    isTyping,             \* useState isTyping
    currentText,          \* useState currentText
    typingPosition,       \* useState typingPosition
    showGeminiPrompt,     \* useState showGeminiPrompt
    clock,                \* Date.now()
    gestures,             \* pointer-down and wheel events so far (bounded)
    moves,                \* pointer-move events so far (bounded)
    keys,                 \* keydown events so far (bounded)
    stored,               \* the document file of the persistence endpoint
    inflight,             \* POST requests sent and not yet handled
    ref,                  \* history: per node, the pointer and the node at the
                          \* start of its last drag and of its last resize
    emitted,              \* notifications emitted by the last step
    fired                 \* what the last step did when it was the save timer

sceneVars == <<nodes, nNodes, images, texts, selectedImage, selectedText>>
panVars == <<pan, isPanning, lastPointerPosition>>
typingVars == <<isTyping, currentText, typingPosition>>
vars == <<nodes, nNodes, images, texts, selectedImage, selectedText, pan,
          isPanning, lastPointerPosition, pressed, saveTimer, currentTool,
          isTyping, currentText, typingPosition, showGeminiPrompt, clock,
          gestures, moves, keys, stored, inflight, ref, emitted, fired>>

Tools == {"select", "text"}

\* ---- documents
\* CanvasData; NoDoc is the endpoint without a file
NoDoc == [images |-> <<>>, texts |-> <<>>, canvasPosition |-> Origin,
          exists |-> FALSE]
StoredImage(i, url, pos, sc) ==
    [id |-> i, imageUrl |-> url, x |-> pos.x, y |-> pos.y, scale |-> sc]
StoredText(i, t, pos, c, f, sc) ==
    [id |-> i, text |-> t, x |-> pos.x, y |-> pos.y, color |-> c,
     fontFamily |-> f, scale |-> sc]

ImageEntry(i, n, url) == [id |-> i, node |-> n, imageUrl |-> url]
\* an entry that loses the content it was given
TextEntryBlank(i, n, t, c, f) ==
    [id |-> i, node |-> n, text |-> <<>>, color |-> c, fontFamily |-> f]
TextEntry(i, n, t, c, f) ==
    [id |-> i, node |-> n, text |-> t, color |-> c, fontFamily |-> f]

\* Array.prototype.find over a state array: the first entry with the id
RECURSIVE FindById(_, _)
FindById(arr, i) ==
    IF arr = <<>> THEN NoSel
    ELSE IF Head(arr).id = i THEN Sel(Head(arr).id, Head(arr).node)
    ELSE FindById(Tail(arr), i)

\* prev.filter(e => e.id !== id)
RECURSIVE FilterOutId(_, _)
FilterOutId(arr, i) ==
    IF arr = <<>> THEN <<>>
    ELSE IF Head(arr).id = i THEN FilterOutId(Tail(arr), i)
    ELSE <<Head(arr)>> \o FilterOutId(Tail(arr), i)

\* ---- debounced auto-save
\* saveDebounceRef.current is null (0) and no timer is active
NoTimer == [ref |-> 0, timers |-> {}]
\* the delay of the save timer, in ms
SaveDelay == 2000
\* window.clearTimeout(h): no effect when h is not an active timer
clearTimeout(st, h) == [st EXCEPT !.timers = {t \in @ : t.handle # h}]
\* the handle window.setTimeout returns: a positive integer that is not the
\* handle of an active timer
FreshHandle(st) ==
    CHOOSE h \in 1 .. Cardinality(st.timers) + 1 :
        /\ \A t \in st.timers : t.handle # h
        /\ \A k \in 1 .. h - 1 : \E t \in st.timers : t.handle = k
\* window.setTimeout(callback, delay) assigned to saveDebounceRef.current;
\* the callback closes over images.length and texts.length
setTimeout(st, delay, imgs, txts) ==
    LET h == FreshHandle(st)
    IN  [ref |-> h,
         timers |-> st.timers \cup {[handle |-> h, delay |-> delay,
                                     imgLen |-> Len(imgs), txtLen |-> Len(txts)]}]
\* a debouncedAutoSave that leaves the earlier timer running
ScheduleKeeping(st, imgs, txts) == setTimeout(st, SaveDelay, imgs, txts)
\* debouncedAutoSave() called when the timers are st: clearTimeout of
\* saveDebounceRef.current if it is set, then a new timer whose callback
\* closes over images.length and texts.length of the render that created this
\* debouncedAutoSave
ScheduleSave(st, imgs, txts) ==
    setTimeout(IF st.ref # 0 THEN clearTimeout(st, st.ref) ELSE st,
               SaveDelay, imgs, txts)
debouncedAutoSave(imgs, txts) == ScheduleSave(saveTimer, imgs, txts)
\* the "auto-save" effect on [images.length], run by the render that follows
\* a handler which left the timers at t
AutoSaveEffect(t) ==
    IF Len(images') # Len(images) /\ Len(images') > 0
    THEN ScheduleSave(t, images', texts')
    ELSE t

\* ---- notifications
Moved(n, pos) == [type |-> "moved", node |-> n, pos |-> pos, scale |-> RInt(0)]
Resized(n, sc) == [type |-> "resized", node |-> n, pos |-> Origin, scale |-> sc]
\* whether the component listens to the node's 'moved' / 'resized' / 'scaled':
\* createSpriteFromTexture and loadFromAPI attach the listeners at once,
\* addClickHandler attaches a text's when it runs, loadCanvasData attaches
\* none to an image
HasListeners(nd) ==
    /\ ~nd.destroyed
    /\ IF nd.kind = "image" THEN nd.origin # "import" ELSE nd.wired

\* a node whose body or handle can be the target of a pointer event
Live(nd) == nd.kind # "none" /\ nd.inContainer /\ ~nd.destroyed /\ nd.ready

\* history of gesture starts (read by the properties only)
NoRef == [grabWorld |-> Origin, grabPos |-> Origin, bodyPointers |-> {},
          handlePointers |-> {},
          startDist |-> RInt(0), startScale |-> RInt(1)]
\* distance between a pointer at global g and the centre of a node, both
\* taken in the world frame
CentreDistance(nd, g, offset) ==
    LET d == PSub(toLocal(g, offset), nd.pos) IN Hypot(d.x, d.y)

\* the target of a pointer event at global g: the topmost node (the one
\* added last) with a part under the pointer, and that part
NoTarget == [node |-> NoNode, part |-> "none"]
Target(g) ==
    LET hits == {n \in NodeIds : /\ Live(nodes[n])
                                 /\ HitPart(nodes[n], g, pan) # "none"}
    IN  IF hits = {} THEN NoTarget
        ELSE LET top == CHOOSE n \in hits : \A m \in hits : m <= n
             IN  [node |-> top, part |-> HitPart(nodes[top], g, pan)]

\* the node whose sprite or text is the target of an event at g, if any
BodyAt(g) == LET tg == Target(g) IN IF tg.part = "body" THEN tg.node ELSE NoNode

hideSelection(ns, n) ==
    IF n = NoNode THEN ns ELSE [ns EXCEPT ![n].frameVisible = FALSE]
showSelection(ns, n) == [ns EXCEPT ![n].frameVisible = TRUE]

----------------------------------------------------------------------------
(* Pointer events.  One action is one dispatch of a PIXI pointer event:    *)
(* the handlers of the target, then those of its ancestors (the container, *)
(* the stage) unless propagation was stopped, then the render.             *)

\* container.on('pointerdown') for an event whose target is a child (an
\* object's event that nothing stopped): only the text-tool branch can act,
\* the else branch requires event.target === container
ContainerPointerDownFromChild(g) ==
    IF currentTool = "text"
    THEN /\ typingPosition' = toLocal(g, pan)
         /\ currentText' = <<>>
         /\ isTyping' = TRUE
    ELSE UNCHANGED typingVars

\* the body of the single-click handler of an image: hide the frame of the
\* selectedImage the handler closed over, show this node's
SelectImageNode(ns, n) ==
    LET cap == ns[n].capSelImage
        hidden == IF cap.node # NoNode /\ cap.id # ns[n].id
                  THEN hideSelection(ns, cap.node) ELSE ns
    IN  showSelection(hidden, n)

\* the pointerdown handler addClickHandler puts on a text: clear the
\* selections the handler closed over, show this node's frame
SelectTextNode(ns, n) ==
    LET h1 == IF ns[n].capSelImage # NoSel
              THEN hideSelection(ns, ns[n].capSelImage.node) ELSE ns
        h2 == IF ns[n].capSelText # NoSel
              THEN hideSelection(h1, ns[n].capSelText.node) ELSE h1
    IN  showSelection(h2, n)

\* pointerdown on the sprite of an image or on the text of a text node
BodyPointerDown(n, p, g) ==
    /\ p \notin pressed
    /\ gestures < MaxGestures
    /\ gestures' = gestures + 1
    /\ UNCHANGED moves
    /\ ref' = [ref EXCEPT ![n].grabWorld = toLocal(g, pan),
                          ![n].grabPos = nodes[n].pos,
                          ![n].bodyPointers = @ \cup {p}]
    /\ Live(nodes[n])
    /\ Target(g) = [node |-> n, part |-> "body"]
    /\ pressed' = pressed \cup {p}
    /\ LET nd == nodes[n]
           started == [nodes EXCEPT ![n] = onDragStart(nd, p, g, pan)]
       IN  IF nd.kind = "image" /\ nd.origin # "import"
           THEN IF nd.clickTimeout
                THEN \* double click: handleImageDoubleClick
                     /\ nodes' = [started EXCEPT ![n].clickTimeout = FALSE]
                     /\ selectedImage' = FindById(images, nd.id)
                     /\ showGeminiPrompt' = TRUE
                     /\ UNCHANGED <<selectedText, typingVars>>
                ELSE /\ nodes' = [started EXCEPT ![n].clickTimeout = TRUE]
                     /\ UNCHANGED <<selectedImage, selectedText,
                                    showGeminiPrompt, typingVars>>
           ELSE IF nd.kind = "image"
           THEN \* loadCanvasData's handler selects at once
                /\ nodes' = SelectImageNode(started, n)
                /\ selectedImage' = Sel(nd.id, n)
                /\ UNCHANGED <<selectedText, showGeminiPrompt, typingVars>>
           ELSE IF nd.wired
           THEN /\ nodes' = SelectTextNode(started, n)
                /\ selectedImage' = IF nd.capSelImage # NoSel THEN NoSel
                                    ELSE selectedImage
                /\ selectedText' = Sel(nd.id, n)
                /\ UNCHANGED <<showGeminiPrompt, typingVars>>
           ELSE \* no click handler yet: the event reaches the container
                /\ nodes' = started
                /\ ContainerPointerDownFromChild(g)
                /\ UNCHANGED <<selectedImage, selectedText, showGeminiPrompt>>
    /\ emitted' = {}
    /\ fired' = "none"
    /\ UNCHANGED <<nNodes, images, texts, panVars, saveTimer, currentTool, clock,
                   keys, stored, inflight>>

\* the 300 ms single-click timeout of an image.  The callback is never
\* cleared by a delete: on a destroyed node showSelection() still writes the
\* frame, and the "x: node.x" of the new selection reads the position of a
\* destroyed container, which throws or not with the library build.
ClickTimerFire(n) ==
    /\ nodes[n].clickTimeout
    /\ nodes' = [SelectImageNode(nodes, n) EXCEPT ![n].clickTimeout = FALSE]
    /\ selectedImage' \in {Sel(nodes[n].id, n)}
                          \cup (IF nodes[n].destroyed THEN {selectedImage} ELSE {})
    /\ emitted' = {}
    /\ fired' = "none"
    /\ UNCHANGED <<nNodes, images, texts, selectedText, panVars, pressed,
                   saveTimer, currentTool, typingVars, showGeminiPrompt, clock,
                   gestures, moves, ref,
                   keys, stored, inflight>>

\* pointerdown on the resize handle (hit only while it is visible)
HandlePointerDown(n, p, g) ==
    /\ p \notin pressed
    /\ gestures < MaxGestures
    /\ gestures' = gestures + 1
    /\ UNCHANGED moves
    /\ ref' = [ref EXCEPT ![n].startDist = CentreDistance(nodes[n], g, pan),
                          ![n].startScale = nodes[n].scale,
                          ![n].handlePointers = @ \cup {p}]
    /\ Live(nodes[n]) /\ nodes[n].frameVisible
    /\ Target(g) = [node |-> n, part |-> "handle"]
    /\ pressed' = pressed \cup {p}
    /\ nodes' = [nodes EXCEPT ![n] = onResizeStart(nodes[n], p, g, pan)]
    /\ IF nodes[n].kind = "image"
       THEN UNCHANGED typingVars          \* e.stopPropagation()
       ELSE ContainerPointerDownFromChild(g)
    /\ emitted' = {}
    /\ fired' = "none"
    /\ UNCHANGED <<nNodes, images, texts, selectedImage, selectedText, panVars,
                   saveTimer, currentTool, showGeminiPrompt, clock,
                   keys, stored, inflight>>

\* pointerdown on the empty background (event.target === container)
\* String.prototype.trim on a sequence of characters
RECURSIVE TrimStart(_)
TrimStart(t) == IF t # <<>> /\ Head(t) = " " THEN TrimStart(Tail(t)) ELSE t
RECURSIVE TrimEnd(_)
TrimEnd(t) ==
    IF t # <<>> /\ t[Len(t)] = " " THEN TrimEnd(SubSeq(t, 1, Len(t) - 1)) ELSE t
Trim(t) == TrimEnd(TrimStart(t))

\* The element a press on the canvas is dispatched to: the <canvas> that
\* app.init appended to the full-size canvasRef div, which covers the
\* .canvas-container div.
PressTarget == "canvas"

\* handleClickOutside, the document mousedown listener of a typing session:
\* it commits the buffer only when the event target is the .canvas-container
\* element itself
ClickOutsideCommits(target) ==
    /\ isTyping
    /\ Trim(currentText) # <<>>
    /\ target = "canvas-container"

BackgroundPointerDown(p, g) ==
    /\ p \notin pressed
    /\ ~ClickOutsideCommits(PressTarget)
    /\ gestures < MaxGestures
    /\ gestures' = gestures + 1
    /\ UNCHANGED <<moves, ref>>
    /\ Target(g) = NoTarget
    /\ pressed' = pressed \cup {p}
    /\ IF currentTool = "text"
       THEN /\ typingPosition' = toLocal(g, pan)
            /\ currentText' = <<>>
            /\ isTyping' = TRUE
            /\ UNCHANGED <<nodes, selectedImage, selectedText, isPanning,
                           lastPointerPosition>>
       ELSE /\ lastPointerPosition' = g
            /\ isPanning' = TRUE
            /\ nodes' = hideSelection(nodes, selectedImage.node)
            /\ selectedImage' = NoSel
            /\ selectedText' = NoSel
            \* "if (isTyping && currentText.trim())": the handler was created
            \* by the mount effect and reads the first render's isTyping, false
            /\ UNCHANGED typingVars
    /\ emitted' = {}
    /\ fired' = "none"
    /\ UNCHANGED <<nNodes, images, texts, pan, saveTimer, currentTool,
                   showGeminiPrompt, clock,
                   keys, stored, inflight>>

\* a pan that adds the pointer's position instead of its displacement
PanTo(offset, g, last) == PAdd(offset, g)
\* container.x += pointer.x - lastPointerPosition.x, and the same for y
PanBy(offset, g, last) == PAdd(offset, PSub(g, last))

\* pointermove of pointer p at g.  The sprite or text under the pointer gets
\* the event (onDragMove), then the container and the stage do.
PointerMove(p, g) ==
    /\ moves < MaxMoves
    /\ moves' = moves + 1
    /\ UNCHANGED ref
    /\ \E t \in {BodyAt(g)} :
         LET pan1 == IF isPanning THEN PanBy(pan, g, lastPointerPosition)
                     ELSE pan
         IN  /\ nodes' = [n \in NodeIds |->
                            LET dragged == IF n = t
                                           THEN onDragMove(nodes[n], p, g, pan)
                                           ELSE nodes[n]
                            IN  IF nodes[n].rootListening
                                THEN onResizeMove(dragged, p, g, pan1)
                                ELSE dragged]
             /\ pan' = pan1
    /\ lastPointerPosition' = IF isPanning THEN g ELSE lastPointerPosition
    /\ saveTimer' = IF isPanning THEN debouncedAutoSave(images, texts)
                    ELSE saveTimer
    /\ emitted' = {}
    /\ fired' = "none"
    /\ UNCHANGED <<nNodes, images, texts, selectedImage, selectedText, isPanning,
                   pressed, currentTool, typingVars, showGeminiPrompt, clock,
                   gestures,
                   keys, stored, inflight>>

\* pointerup / pointerupoutside of pointer p: onDragEnd of the nodes that
\* listen, the container's handler, the resize listeners on the root
PointerUp(p) ==
    /\ p \in pressed
    /\ pressed' = pressed \ {p}
    /\ LET movedBy == {n \in NodeIds : Live(nodes[n]) /\ DragEndEmits(nodes[n], p)}
           afterDrag == [n \in NodeIds |->
                           IF Live(nodes[n]) THEN onDragEnd(nodes[n], p)
                           ELSE nodes[n]]
           resizedBy == {n \in NodeIds : /\ afterDrag[n].rootListening
                                         /\ ResizeEndEmits(afterDrag[n], p)}
           afterResize == [n \in NodeIds |->
                             IF afterDrag[n].rootListening
                             THEN onResizeEnd(afterDrag[n], p)
                             ELSE afterDrag[n]]
       IN  /\ nodes' = afterResize
           /\ emitted' = {Moved(n, afterResize[n].pos) : n \in movedBy}
                         \cup {Resized(n, afterResize[n].scale) : n \in resizedBy}
           /\ saveTimer' = IF \E n \in movedBy \cup resizedBy : HasListeners(nodes[n])
                           THEN debouncedAutoSave(images, texts)
                           ELSE saveTimer
    /\ isPanning' = FALSE
    /\ fired' = "none"
    /\ ref' = [n \in NodeIds |-> [ref[n] EXCEPT !.bodyPointers = @ \ {p},
                                                !.handlePointers = @ \ {p}]]
    /\ UNCHANGED <<nNodes, images, texts, selectedImage, selectedText, pan,
                   lastPointerPosition, currentTool, typingVars,
                   showGeminiPrompt, clock, gestures, moves,
                   keys, stored, inflight>>

\* handleWheel.  The factor base^(-deltaY) is drawn from WheelFactors (deltaY
\* is a real number); ctrlKey doubles the exponent, which squares the factor.
WheelFactors == {<<1, 2>>, <<2, 1>>}
WheelFactor(f, ctrlKey) == IF ctrlKey THEN RMul(f, f) ELSE f
Wheel(f, ctrlKey) ==
    /\ gestures < MaxGestures
    /\ gestures' = gestures + 1
    /\ UNCHANGED <<moves, ref>>
    /\ IF selectedImage = NoSel
       THEN UNCHANGED <<nodes, saveTimer>>     \* if (!selected?.node) return
       ELSE /\ LET n == selectedImage.node
                   c == getScaleConstraints(nodes[n].tex)
                   clamped == MathMax(c.min, MathMin(c.max,
                                  RMul(nodes[n].scale, WheelFactor(f, ctrlKey))))
               IN  nodes' = [nodes EXCEPT ![n].scale = clamped]
            /\ saveTimer' = debouncedAutoSave(images, texts)
    /\ emitted' = {}
    /\ fired' = "none"
    /\ UNCHANGED <<nNodes, images, texts, selectedImage, selectedText, panVars,
                   pressed, currentTool, typingVars, showGeminiPrompt, clock,
                   keys, stored, inflight>>

----------------------------------------------------------------------------
(* Creation, keyboard, deletion *)

\* the parent changes the currentTool prop; the effect copies it to
\* currentToolRef
SetTool(t) ==
    /\ t # currentTool
    /\ currentTool' = t
    /\ emitted' = {}
    /\ fired' = "none"
    /\ UNCHANGED <<sceneVars, panVars, pressed, saveTimer, typingVars,
                   showGeminiPrompt, clock, gestures, moves, keys, stored,
                   inflight, ref>>

\* Date.now() advances
Tick ==
    /\ clock < MaxClock
    /\ clock' = clock + 1
    /\ emitted' = {}
    /\ fired' = "none"
    /\ UNCHANGED <<sceneVars, panVars, pressed, saveTimer, currentTool,
                   typingVars, showGeminiPrompt, gestures, moves, keys, stored,
                   inflight, ref>>

\* createSpriteFromTexture(texture, x, y, imageUrl), and the render that
\* follows setImages (the effect on [images.length]).  capImg is the
\* selectedImage of the render whose createSpriteFromTexture is called.
createSpriteFromTexture(tex, pos, imageUrl, origin, capImg) ==
    LET n == nNodes + 1
        id == clock
        node == NewImageNode(tex, id, Point(MathRound(pos.x), MathRound(pos.y)),
                             origin, capImg)
    IN  /\ nNodes < MaxNodes
        /\ nNodes' = n
        /\ nodes' = [nodes EXCEPT ![n] = [node EXCEPT !.inContainer = TRUE]]
        /\ images' = Append(images, ImageEntry(id, n, imageUrl))
        /\ saveTimer' = AutoSaveEffect(saveTimer)

\* handleDrop of an image file at the canvas point g, up to the end of
\* addImageAtPosition: the handler belongs to the mount effect, so the
\* createSpriteFromTexture it reaches is the first render's (selectedImage
\* null).  A file that does not decode creates nothing.
DropImage(url, g) ==
    /\ url \in GoodUrls
    /\ UNCHANGED <<texts, selectedImage, selectedText, panVars, pressed,
                   currentTool, typingVars, showGeminiPrompt, clock, gestures,
                   moves, keys, stored, inflight, ref>>
    /\ createSpriteFromTexture(TextureOf(url), toLocal(g, pan), url, "drop", NoSel)
    /\ emitted' = {}
    /\ fired' = "none"

\* editorState.color and editorState.fontFamily (a system font: no wait
\* before the node is constructed)
EditorColor == "black"
EditorFont == "Arial"

\* createTextElement(text, x, y) of the current render: its click handler
\* will close over this render's selectedImage and selectedText, and the
\* debouncedAutoSave it calls through the ref is this render's
createTextElement(text, pos) ==
    LET n == nNodes + 1
        id == clock
        node == NewTextNode(id, pos, "typed", selectedImage, selectedText)
    IN  /\ nNodes' = n
        /\ nodes' = [nodes EXCEPT ![n] = [node EXCEPT !.inContainer = TRUE]]
        /\ texts' = Append(texts, TextEntry(id, n, text, EditorColor, EditorFont))
        /\ saveTimer' = debouncedAutoSave(images, texts)

\* loadFontForPixi resolves: the PIXI.Text is created, made interactive, and
\* _redrawFrame draws (and hides) the frame
TextReady(n) ==
    /\ nodes[n].kind = "text"
    /\ ~nodes[n].ready
    /\ nodes' = [nodes EXCEPT ![n] = TextRedrawFrame([@ EXCEPT !.ready = TRUE], pan)]
    /\ emitted' = {}
    /\ fired' = "none"
    /\ UNCHANGED <<nNodes, images, texts, selectedImage, selectedText, panVars,
                   pressed, saveTimer, currentTool, typingVars, showGeminiPrompt,
                   clock, gestures, moves, keys, stored, inflight, ref>>

\* addClickHandler finds textNode.text: the click handler and the 'moved' /
\* 'scaled' listeners are attached
WireText(n) ==
    /\ nodes[n].kind = "text"
    /\ nodes[n].ready
    /\ ~nodes[n].wired
    /\ nodes' = [nodes EXCEPT ![n].wired = TRUE]
    /\ emitted' = {}
    /\ fired' = "none"
    /\ UNCHANGED <<nNodes, images, texts, selectedImage, selectedText, panVars,
                   pressed, saveTimer, currentTool, typingVars, showGeminiPrompt,
                   clock, gestures, moves, keys, stored, inflight, ref>>

\* node.destroy() after container.removeChild(node)
DestroyNode(ns, n) ==
    IF n = NoNode THEN ns
    ELSE [ns EXCEPT ![n].destroyed = TRUE, ![n].inContainer = FALSE]

\* window.innerWidth / 2, window.innerHeight / 2
ViewportCentre == LinePoint(6)

\* every key taken for a character
KeyLengthOne(key) == 1
\* event.key.length
KeyLength(key) == Len(key)

\* handleKeyDown(event), of the current render; ctrlOrMeta is event.ctrlKey
\* || event.metaKey
handleKeyDown(key, ctrlOrMeta) ==
    /\ keys < MaxKeys
    /\ keys' = keys + 1
    /\ LET closes == key = "Escape" /\ showGeminiPrompt
           del == key \in {"Delete", "Backspace"} /\ ~showGeminiPrompt
           delImage == del /\ selectedImage # NoSel
           delText == del /\ selectedImage = NoSel /\ selectedText # NoSel
           starts == key \in {"t", "T"} /\ ~showGeminiPrompt /\ ~isTyping
           typed == ~closes /\ isTyping
           commits == typed /\ key = "Enter" /\ Trim(currentText) # <<>>
       IN  /\ ~commits \/ nNodes < MaxNodes
           /\ showGeminiPrompt' = IF closes THEN FALSE ELSE showGeminiPrompt
           /\ IF delImage
              THEN \* handleDeleteImage(selectedImage.id)
                   /\ nodes' = DestroyNode(nodes, FindById(images, selectedImage.id).node)
                   /\ images' = FilterOutId(images, selectedImage.id)
                   /\ selectedImage' = NoSel
                   /\ UNCHANGED <<nNodes, texts, selectedText>>
                   /\ saveTimer' = AutoSaveEffect(debouncedAutoSave(images, texts))
              ELSE IF delText
              THEN \* handleDeleteText(selectedText.id)
                   /\ nodes' = DestroyNode(nodes, FindById(texts, selectedText.id).node)
                   /\ texts' = FilterOutId(texts, selectedText.id)
                   /\ selectedText' = NoSel
                   /\ saveTimer' = debouncedAutoSave(images, texts)
                   /\ UNCHANGED <<nNodes, images, selectedImage>>
              ELSE IF commits
              THEN /\ createTextElement(Trim(currentText), typingPosition)
                   /\ UNCHANGED <<images, selectedImage, selectedText>>
              ELSE UNCHANGED <<sceneVars, saveTimer>>
           /\ IF starts
              THEN /\ typingPosition' = PSub(ViewportCentre, pan)
                   /\ currentText' = <<>>
                   /\ isTyping' = TRUE
              ELSE IF typed /\ key \in {"Enter", "Escape"}
              THEN /\ isTyping' = FALSE
                   /\ currentText' = <<>>
                   /\ UNCHANGED typingPosition
              ELSE IF typed /\ key = "Backspace"
              THEN /\ currentText' = SubSeq(currentText, 1, Len(currentText) - 1)
                   /\ UNCHANGED <<isTyping, typingPosition>>
              ELSE IF typed /\ KeyLength(key) = 1 /\ ~ctrlOrMeta
              THEN /\ currentText' = Append(currentText, key)
                   /\ UNCHANGED <<isTyping, typingPosition>>
              ELSE UNCHANGED typingVars
    /\ emitted' = {}
    /\ fired' = "none"
    /\ UNCHANGED <<panVars, pressed, currentTool, clock, gestures, moves, stored,
                   inflight, ref>>

\* a key pressed without a modifier
KeyDown(key) == handleKeyDown(key, FALSE)

----------------------------------------------------------------------------
(* Saving *)

\* saveToAPI throws when a text's node has no PIXI.Text yet: getScale()
\* reads this.text.scale.x
SaveThrows == \E i \in 1 .. Len(texts) : ~nodes[texts[i].node].ready
\* "x || 0", "getScale() || 1"
OrZero(c) == IF IsNaN(c) THEN RInt(0) ELSE c
OrOne(sc) == IF IsNaN(sc) \/ sc = RInt(0) THEN RInt(1) ELSE sc
RECURSIVE SerializeImages(_)
SerializeImages(arr) ==
    IF arr = <<>> THEN <<>>
    ELSE LET img == Head(arr)
             nd == nodes[img.node]
         IN  (IF img.imageUrl = "" THEN <<>>
              ELSE <<StoredImage(img.id, img.imageUrl,
                                 Point(OrZero(nd.pos.x), OrZero(nd.pos.y)),
                                 OrOne(nd.scale))>>)
             \o SerializeImages(Tail(arr))
SerializeTexts(arr) ==
    [i \in 1 .. Len(arr) |->
        LET nd == nodes[arr[i].node]
        IN  StoredText(arr[i].id, arr[i].text,
                       Point(OrZero(nd.pos.x), OrZero(nd.pos.y)),
                       arr[i].color, arr[i].fontFamily, OrOne(nd.scale))]
\* the CanvasData that saveToAPI of the current render builds
CanvasDoc ==
    [images |-> SerializeImages(images), texts |-> SerializeTexts(texts),
     canvasPosition |-> pan, exists |-> TRUE]

\* saveToAPI(): the fetch leaves, unless building the document throws
saveToAPI == IF SaveThrows THEN UNCHANGED inflight
             ELSE inflight' = inflight \cup {CanvasDoc}
\* the requests in flight are bounded
CanSend == Cardinality(inflight) < MaxInflight
\* every request sent has been answered: the sessions in which a save
\* leaves only then have one request in flight at a time
Answered == inflight = {}

\* the 2000 ms timer of debouncedAutoSave fires: its callback reads the
\* images.length and texts.length of the render that scheduled it
SaveTimerFire ==
    /\ CanSend
    \* a text's font wait (100 ms to 2000 ms from its construction) is over
    \* before a 2000 ms timer armed after the construction fires
    /\ ~SaveThrows
    /\ \E t \in saveTimer.timers :
          /\ saveTimer' = [saveTimer EXCEPT !.timers = @ \ {t}]
          /\ IF t.imgLen > 0 \/ t.txtLen > 0
             THEN /\ saveToAPI
                  /\ fired' = "saved"
             ELSE /\ fired' = "skipped"
                  /\ UNCHANGED inflight
    /\ emitted' = {}
    /\ UNCHANGED <<sceneVars, panVars, pressed, currentTool, typingVars,
                   showGeminiPrompt, clock, gestures, moves, keys, stored, ref>>

\* the "Save to API" button
ManualSave ==
    /\ CanSend
    /\ saveToAPI
    /\ fired' = IF SaveThrows THEN "threw" ELSE "manual"
    /\ emitted' = {}
    /\ UNCHANGED <<sceneVars, panVars, pressed, saveTimer, currentTool,
                   typingVars, showGeminiPrompt, clock, gestures, moves, keys,
                   stored, ref>>

\* route.ts POST: the body's images is an array, the file is written
ServerPost(d) ==
    /\ d \in inflight
    /\ inflight' = inflight \ {d}
    /\ stored' = d
    /\ emitted' = {}
    /\ fired' = "none"
    /\ UNCHANGED <<sceneVars, panVars, pressed, saveTimer, currentTool,
                   typingVars, showGeminiPrompt, clock, gestures, moves, keys,
                   ref>>

\* a failed POST whose request never settles
ServerPostFailsPending(d) ==
    /\ d \in inflight
    /\ UNCHANGED inflight
    /\ emitted' = {}
    /\ fired' = "saveFailed"
    /\ UNCHANGED <<sceneVars, panVars, pressed, saveTimer, currentTool,
                   typingVars, showGeminiPrompt, clock, gestures, moves, keys,
                   stored, ref>>
\* the POST fails: the fetch rejects, or route.ts answers 400 or 500 and
\* writes nothing.  saveToAPI's catch logs the error.
ServerPostFails(d) ==
    /\ d \in inflight
    /\ inflight' = inflight \ {d}
    /\ emitted' = {}
    /\ fired' = "saveFailed"
    /\ UNCHANGED <<sceneVars, panVars, pressed, saveTimer, currentTool,
                   typingVars, showGeminiPrompt, clock, gestures, moves, keys,
                   stored, ref>>

\* PIXI.Texture.from(newImageUrl) inside the try of handleGeminiImageUpdated:
\* the texture of a source that resolves; for any other source the call
\* throws (the sprite keeps its texture) or yields an empty texture
GeminiTextures(nd, url) ==
    IF Resolves(url) THEN {TextureOf(url)} ELSE {nd.tex, NoTexture}

\* handleGeminiImageUpdated(imageId, newImageUrl) of the current render:
\* every entry of that id gets the source, the node of the first one the
\* texture
GeminiImageUpdated(imageId, newUrl) ==
    /\ images' = [i \in 1 .. Len(images) |->
                    IF images[i].id = imageId
                    THEN [images[i] EXCEPT !.imageUrl = newUrl] ELSE images[i]]
    /\ \E n \in {FindById(images, imageId).node} :
          IF n = NoNode THEN nodes' = nodes
          ELSE \E tex \in GeminiTextures(nodes[n], newUrl) :
                  nodes' = [nodes EXCEPT ![n].tex = tex]
    /\ saveTimer' = debouncedAutoSave(images, texts)
    /\ nNodes' = nNodes

\* handleGeminiImageGenerated(imageUrl, x, y) of the current render, up to
\* the end of addImageAtPosition; a source that does not decode creates
\* nothing
GeminiImageGenerated(imageUrl, g) ==
    IF Resolves(imageUrl)
    THEN createSpriteFromTexture(TextureOf(imageUrl), toLocal(g, pan), imageUrl,
                                 "generated", selectedImage)
    ELSE UNCHANGED <<nodes, nNodes, images, saveTimer>>

\* the "Generate Image" button of the toolbar
OpenPanel ==
    /\ ~showGeminiPrompt
    /\ showGeminiPrompt' = TRUE
    /\ emitted' = {}
    /\ fired' = "none"
    /\ UNCHANGED <<sceneVars, panVars, pressed, saveTimer, currentTool,
                   typingVars, clock, gestures, moves, keys, stored, inflight,
                   ref>>

\* analyzePromptIntent(prompt)
Intents == {"create", "update"}
\* Math.random() * 400 + 100, twice
GeneratedPoints == {LinePoint(34)}

\* handleSubmit of the panel with a prompt of the given intent, answered by
\* { success: true, imageUrl }: the result goes to onImageGenerated or, with
\* a selectedImageId, to onImageUpdated; then onClose()
GeminiSubmit(intent, imageUrl, g) ==
    /\ showGeminiPrompt
    /\ UNCHANGED <<texts, selectedImage, selectedText, panVars, pressed,
                   currentTool, typingVars, clock, gestures, moves, keys,
                   stored, inflight, ref>>
    /\ CASE intent = "create" -> GeminiImageGenerated(imageUrl, g)
         [] intent = "update" /\ selectedImage # NoSel ->
               GeminiImageUpdated(selectedImage.id, imageUrl)
         [] OTHER -> UNCHANGED <<nodes, nNodes, images, saveTimer>>
    /\ showGeminiPrompt' = FALSE
    /\ emitted' = {}
    /\ fired' = "generated"

----------------------------------------------------------------------------
(* Loading *)


\* a loop that would end at the first entry it cannot load ("break")
AfterSkipBreak(arr) == <<>>
\* "continue" in the per-entry loops: the entries after the one skipped
AfterSkip(arr) == Tail(arr)

\* the per-image loop of loadFromAPI and of loadCanvasData over the stored
\* entries arr: an entry without a url, or whose texture cannot be obtained,
\* is skipped ("continue"); the others get a node at the rounded position
\* with the stored scale (setScale) and are pushed to loadedImages.  ns, n:
\* the nodes and their number so far.
RECURSIVE LoadImages(_, _, _, _, _)
LoadImages(arr, ns, n, origin, capImg) ==
    IF arr = <<>> THEN [nodes |-> ns, images |-> <<>>, nNodes |-> n]
    ELSE LET e == Head(arr)
         IN  IF e.imageUrl = "" \/ ~Resolves(e.imageUrl)
             THEN LoadImages(AfterSkip(arr), ns, n, origin, capImg)
             ELSE LET node == [NewImageNode(TextureOf(e.imageUrl), e.id,
                                            Point(MathRound(e.x), MathRound(e.y)),
                                            origin, capImg)
                                 EXCEPT !.scale = e.scale, !.inContainer = TRUE]
                      rest == LoadImages(Tail(arr), [ns EXCEPT ![n + 1] = node],
                                         n + 1, origin, capImg)
                  IN  [rest EXCEPT !.images = <<ImageEntry(e.id, n + 1, e.imageUrl)>> \o @]

\* the per-text loop of loadCanvasData: an entry without content is skipped;
\* "if (storedText.scale) textNode.setScale(...)" throws on the node just
\* constructed (this.text does not exist yet) and the catch skips the entry
RECURSIVE LoadTexts(_, _, _, _, _)
LoadTexts(arr, ns, n, capImg, capTxt) ==
    IF arr = <<>> THEN [nodes |-> ns, texts |-> <<>>, nNodes |-> n]
    ELSE LET e == Head(arr)
         IN  IF e.text = <<>> \/ (e.scale # RInt(0) /\ ~IsNaN(e.scale))
             THEN LoadTexts(AfterSkip(arr), ns, n, capImg, capTxt)
             ELSE LET node == [NewTextNode(e.id, Point(e.x, e.y), "import",
                                           capImg, capTxt)
                                 EXCEPT !.inContainer = TRUE]
                      rest == LoadTexts(Tail(arr), [ns EXCEPT ![n + 1] = node],
                                        n + 1, capImg, capTxt)
                  IN  [rest EXCEPT !.texts =
                         <<TextEntry(e.id, n + 1, e.text, e.color, e.fontFamily)>> \o @]

\* a GET that never finds the file
ServerGetDefault == [NoDoc EXCEPT !.exists = TRUE]
\* route.ts GET: the file, or an empty canvas when there is none
ServerGet == IF stored.exists THEN stored
             ELSE [NoDoc EXCEPT !.exists = TRUE]

\* the page is (re)loaded and the loadFromAPI() of the mount effect runs to
\* its end: a new component, whose images are the entries of the served
\* document that resolve; texts are not read
LoadFromAPI ==
    LET d == ServerGet
        loaded == LoadImages(d.images, [n \in NodeIds |-> NoNodeRec], 0, "api", NoSel)
    IN  /\ loaded.nNodes <= MaxNodes
        /\ nodes' = loaded.nodes
        /\ nNodes' = loaded.nNodes
        /\ images' = loaded.images
        /\ texts' = <<>>
        /\ pan' = d.canvasPosition
        /\ saveTimer' = IF Len(loaded.images) > 0
                        THEN ScheduleSave(NoTimer, loaded.images, <<>>)
                        ELSE NoTimer
        /\ selectedImage' = NoSel /\ selectedText' = NoSel
        /\ isPanning' = FALSE /\ lastPointerPosition' = Origin
        /\ pressed' = {}
        /\ currentTool' = "select"
        /\ isTyping' = FALSE /\ currentText' = <<>> /\ typingPosition' = Origin
        /\ showGeminiPrompt' = FALSE
        /\ ref' = [n \in NodeIds |-> NoRef]
        /\ emitted' = {}
        /\ fired' = "loaded"
        /\ UNCHANGED <<clock, gestures, moves, keys, stored, inflight>>

\* the GET of the mount effect's loadFromAPI() fails, at whatever moment the
\* answer arrives: the fetch rejects or the response is not ok, the throw is
\* inside the try and the catch logs the error
LoadFromAPIFails ==
    /\ emitted' = {}
    /\ fired' = "loadFailed"
    /\ UNCHANGED <<sceneVars, panVars, pressed, saveTimer, currentTool,
                   typingVars, showGeminiPrompt, clock, gestures, moves, keys,
                   stored, inflight, ref>>

\* importFromJSON of a file holding the document d, up to the end of
\* loadCanvasData(d) of the current render
ImportFromJSON(d) ==
    LET old == {images[i].node : i \in 1 .. Len(images)}
               \cup {texts[i].node : i \in 1 .. Len(texts)}
        cleared == [n \in NodeIds |->
                      IF n \in old THEN DestroyNode(nodes, n)[n] ELSE nodes[n]]
        li == LoadImages(d.images, cleared, nNodes, "import", selectedImage)
        lt == LoadTexts(d.texts, li.nodes, li.nNodes, selectedImage, selectedText)
    IN  /\ lt.nNodes <= MaxNodes
        /\ nodes' = lt.nodes
        /\ nNodes' = lt.nNodes
        /\ images' = li.images
        /\ texts' = lt.texts
        /\ selectedImage' = NoSel /\ selectedText' = NoSel
        /\ pan' = d.canvasPosition
        /\ saveTimer' = AutoSaveEffect(saveTimer)
        /\ emitted' = {}
        /\ fired' = "imported"
        /\ UNCHANGED <<isPanning, lastPointerPosition, pressed, currentTool,
                       typingVars, showGeminiPrompt, clock, gestures, moves,
                       keys, stored, inflight, ref>>

\* the textures whose load a loadCanvasData is waiting for
AwaitedTextures ==
    {n \in NodeIds : nodes[n].kind = "texture" /\ ~nodes[n].destroyed}
\* importFromJSON of a file holding the document d, up to the first await
\* of loadCanvasData(d): the collections are cleared, the offset restored,
\* and the texture of the first image that resolves is not loaded yet.  The
\* texture is an object of its own until its node is constructed; it keeps
\* the selection of the render whose loadCanvasData is running.
ImportAwait(d) ==
    LET old == {images[i].node : i \in 1 .. Len(images)}
               \cup {texts[i].node : i \in 1 .. Len(texts)}
        cleared == [n \in NodeIds |->
                      IF n \in old THEN DestroyNode(nodes, n)[n] ELSE nodes[n]]
        n == nNodes + 1
    IN  /\ \E i \in 1 .. Len(d.images) : Resolves(d.images[i].imageUrl)
        /\ AwaitedTextures = {}
        /\ n <= MaxNodes
        /\ nodes' = [cleared EXCEPT ![n] =
                        [NoNodeRec EXCEPT !.kind = "texture", !.origin = "import",
                                          !.capSelImage = selectedImage,
                                          !.capSelText = selectedText]]
        /\ nNodes' = n
        /\ images' = <<>>
        /\ texts' = <<>>
        /\ selectedImage' = NoSel /\ selectedText' = NoSel
        /\ pan' = d.canvasPosition
        /\ saveTimer' = AutoSaveEffect(saveTimer)
        /\ emitted' = {}
        /\ fired' = "awaiting"
        /\ UNCHANGED <<isPanning, lastPointerPosition, pressed, currentTool,
                       typingVars, showGeminiPrompt, clock, gestures, moves,
                       keys, stored, inflight, ref>>

\* the awaited texture has loaded and loadCanvasData(d) runs to its end:
\* the nodes are constructed and added to the container, then
\* setImages(loadedImages) and setTexts(loadedTexts) replace the collections
ImportResume(d) ==
    \E t \in AwaitedTextures :
        LET li == LoadImages(d.images, [nodes EXCEPT ![t].destroyed = TRUE],
                             nNodes, "import", nodes[t].capSelImage)
            lt == LoadTexts(d.texts, li.nodes, li.nNodes, nodes[t].capSelImage,
                            nodes[t].capSelText)
        IN  /\ lt.nNodes <= MaxNodes
            /\ nodes' = lt.nodes
            /\ nNodes' = lt.nNodes
            /\ images' = li.images
            /\ texts' = lt.texts
            /\ saveTimer' = AutoSaveEffect(saveTimer)
            /\ emitted' = {}
            /\ fired' = "imported"
            /\ UNCHANGED <<selectedImage, selectedText, panVars, pressed,
                           currentTool, typingVars, showGeminiPrompt, clock,
                           gestures, moves, keys, stored, inflight, ref>>

\* Files that are no document: text that is not JSON, and JSON whose
\* 'images' is missing or is not iterable, with or without a canvasPosition
MalformedFiles ==
    {[json |-> FALSE, position |-> FALSE],
     [json |-> TRUE, position |-> FALSE],
     [json |-> TRUE, position |-> TRUE]}
\* the canvasPosition of a malformed file that has one
MalformedPosition == LinePoint(2)

\* importFromJSON of a malformed file f.  JSON.parse throws at once; otherwise
\* loadCanvasData clears the images, the texts and the selection, restores
\* the position if the file has one, and throws at "for (... of
\* canvasData.images)".  The catch of reader.onload shows the alert.
ImportMalformed(f) ==
    /\ f \in MalformedFiles
    /\ IF ~f.json
       THEN UNCHANGED <<sceneVars, pan, saveTimer>>
       ELSE LET old == {images[i].node : i \in 1 .. Len(images)}
                       \cup {texts[i].node : i \in 1 .. Len(texts)}
            IN  /\ nodes' = [n \in NodeIds |->
                               IF n \in old THEN DestroyNode(nodes, n)[n]
                               ELSE nodes[n]]
                /\ images' = <<>>
                /\ texts' = <<>>
                /\ selectedImage' = NoSel /\ selectedText' = NoSel
                /\ pan' = IF f.position THEN MalformedPosition ELSE pan
                /\ UNCHANGED nNodes
                /\ saveTimer' = AutoSaveEffect(saveTimer)
    /\ emitted' = {}
    /\ fired' = "importRejected"
    /\ UNCHANGED <<isPanning, lastPointerPosition, pressed, currentTool,
                   typingVars, showGeminiPrompt, clock, gestures, moves,
                   keys, stored, inflight, ref>>

----------------------------------------------------------------------------
(* Gestures on existing objects *)

\* the component as the first render leaves it, nothing on the canvas
Mounted ==
    /\ nodes = [n \in NodeIds |-> NoNodeRec]
    /\ nNodes = 0
    /\ images = <<>>
    /\ texts = <<>>
    /\ selectedImage = NoSel
    /\ selectedText = NoSel
    /\ pan = Origin
    /\ isPanning = FALSE
    /\ lastPointerPosition = Origin
    /\ pressed = {}
    /\ saveTimer = NoTimer
    /\ currentTool = "select"
    /\ isTyping = FALSE
    /\ currentText = <<>>
    /\ typingPosition = Origin
    /\ showGeminiPrompt = FALSE
    /\ clock = 1
    /\ gestures = 0
    /\ moves = 0
    /\ keys = 0
    /\ inflight = {}
    /\ ref = [n \in NodeIds |-> NoRef]
    /\ emitted = {}
    /\ fired = "none"

\* the first render with no document file at the endpoint
InitEmpty == Mounted /\ stored = NoDoc

\* One complete object alone on the canvas, nothing selected, no timer
\* pending: a dropped image (source "photo"), or a typed text whose font has
\* loaded and whose click handler is attached.
ImageScene ==
    [n \in NodeIds |->
        IF n = 1
        THEN [NewImageNode(TextureOf("photo"), 1, LinePoint(1), "drop", NoSel)
                EXCEPT !.inContainer = TRUE]
        ELSE NoNodeRec]
TextScene ==
    [n \in NodeIds |->
        IF n = 1
        THEN TextRedrawFrame(
                 [NewTextNode(1, LinePoint(1), "typed", NoSel, NoSel)
                    EXCEPT !.inContainer = TRUE, !.ready = TRUE, !.wired = TRUE],
                 Origin)
        ELSE NoNodeRec]

InitGesture ==
    /\ \/ /\ nodes = ImageScene
          /\ images = <<ImageEntry(1, 1, "photo")>>
          /\ texts = <<>>
       \/ /\ nodes = TextScene
          /\ images = <<>>
          /\ texts = <<TextEntry(1, 1, "a", "black", "Arial")>>
    /\ nNodes = 1
    /\ selectedImage = NoSel
    /\ selectedText = NoSel
    /\ pan \in {Origin, LinePoint(2)}
    /\ isPanning = FALSE
    /\ lastPointerPosition = Origin
    /\ pressed = {}
    /\ saveTimer = NoTimer
    /\ currentTool = "select"
    /\ isTyping = FALSE
    /\ currentText = <<>>
    /\ typingPosition = Origin
    /\ showGeminiPrompt = FALSE
    /\ clock = 1
    /\ gestures = 0
    /\ moves = 0
    /\ keys = 0
    /\ stored = NoDoc
    /\ inflight = {}
    /\ ref = [n \in NodeIds |-> NoRef]
    /\ emitted = {}
    /\ fired = "none"

NextGesture ==
    \/ \E n \in NodeIds, p \in Pointers, g \in GlobalPoints : BodyPointerDown(n, p, g)
    \/ \E n \in NodeIds : ClickTimerFire(n)
    \/ \E n \in NodeIds, p \in Pointers, g \in GlobalPoints : HandlePointerDown(n, p, g)
    \/ \E p \in Pointers, g \in GlobalPoints : PointerMove(p, g)
    \/ \E p \in Pointers : PointerUp(p)

SpecGesture == InitGesture /\ [][NextGesture]_vars

\* The same object is also scaled by the wheel and deleted, at any point of
\* a gesture
ResizeKeys == {"Delete"}
NextResize ==
    \/ \E n \in NodeIds, p \in Pointers, g \in GlobalPoints : BodyPointerDown(n, p, g)
    \/ \E n \in NodeIds : ClickTimerFire(n)
    \/ \E n \in NodeIds, p \in Pointers, g \in GlobalPoints : HandlePointerDown(n, p, g)
    \/ \E p \in Pointers, g \in GlobalPoints : PointerMove(p, g)
    \/ \E p \in Pointers : PointerUp(p)
    \/ \E key \in ResizeKeys : KeyDown(key)
    \/ \E f \in WheelFactors, ctrlKey \in BOOLEAN : Wheel(f, ctrlKey)

SpecResize == InitGesture /\ [][NextResize]_vars

Mouse == {1}
\* The mouse (one pointer) presses the object, its handle and the background
\* with either tool, moves and is released
NextPan ==
    \/ \E t \in Tools : SetTool(t)
    \/ \E n \in NodeIds, p \in Mouse, g \in GlobalPoints : BodyPointerDown(n, p, g)
    \/ \E n \in NodeIds : ClickTimerFire(n)
    \/ \E n \in NodeIds, p \in Mouse, g \in GlobalPoints : HandlePointerDown(n, p, g)
    \/ \E p \in Mouse, g \in GlobalPoints : BackgroundPointerDown(p, g)
    \/ \E p \in Mouse, g \in GlobalPoints : PointerMove(p, g)
    \/ \E p \in Mouse : PointerUp(p)

SpecPan == InitGesture /\ [][NextPan]_vars

----------------------------------------------------------------------------
(* The canvas from its first render: objects are dropped and typed, clicked *)
(* and deleted, and the debounced save runs                                 *)

\* the files dropped and the places they are dropped at, the keys pressed,
\* the places clicked (with the mouse)
DropUrls == {"icon"}
DropPoints == {LinePoint(1)}
CanvasKeys == {"Escape", "Delete", "Backspace", "Enter", "t", " "}
ClickPoints == {LinePoint(1), LinePoint(6)}

NextCanvas ==
    \/ \E t \in Tools : SetTool(t)
    \/ Tick
    \/ \E url \in DropUrls, g \in DropPoints : DropImage(url, g)
    \/ \E key \in CanvasKeys : KeyDown(key)
    \/ \E n \in NodeIds : TextReady(n)
    \/ \E n \in NodeIds : WireText(n)
    \/ \E n \in NodeIds, p \in Mouse, g \in ClickPoints : BodyPointerDown(n, p, g)
    \/ \E n \in NodeIds : ClickTimerFire(n)
    \/ \E p \in Mouse, g \in ClickPoints : BackgroundPointerDown(p, g)
    \/ \E p \in Mouse : PointerUp(p)

SpecCanvas == InitEmpty /\ [][NextCanvas]_vars

\* One session of one page, from the empty canvas to whatever the user
\* leaves: objects are dropped, typed, clicked and deleted, and the saves
\* run
EventualKeys == {"Delete", "Enter", "t", "x"}
NextEventually ==
    \/ \E url \in DropUrls, g \in DropPoints : DropImage(url, g)
    \/ \E key \in EventualKeys : KeyDown(key)
    \/ \E n \in NodeIds : TextReady(n)
    \/ \E n \in NodeIds : WireText(n)
    \/ \E n \in NodeIds, p \in Mouse, g \in DropPoints : BodyPointerDown(n, p, g)
    \/ \E n \in NodeIds : ClickTimerFire(n)
    \/ \E p \in Mouse : PointerUp(p)
    \/ Answered /\ SaveTimerFire
    \/ \E d \in inflight : ServerPost(d)
\* What happens without the user: a timer that was armed fires, the font
\* wait of a text ends, a request that left is answered
FairEventually ==
    /\ WF_vars(Answered /\ SaveTimerFire)
    /\ WF_vars(\E n \in NodeIds : TextReady(n))
    /\ WF_vars(\E d \in inflight : ServerPost(d))
SpecEventually == InitEmpty /\ [][NextEventually]_vars /\ FairEventually

\* Typing next to one object that can be selected: the keys pressed, with
\* and without ctrl or meta, the panel opened, the background pressed with
\* either tool
TypingKeys == {"t", "T", "x", "Backspace", "Delete", "Enter", "Escape", "Shift"}
NextTyping ==
    \/ \E t \in Tools : SetTool(t)
    \/ \E n \in NodeIds, p \in Mouse, g \in ClickPoints : BodyPointerDown(n, p, g)
    \/ \E n \in NodeIds : ClickTimerFire(n)
    \/ \E p \in Mouse, g \in ClickPoints : BackgroundPointerDown(p, g)
    \/ \E p \in Mouse : PointerUp(p)
    \/ OpenPanel
    \/ \E key \in TypingKeys, ctrlOrMeta \in BOOLEAN : handleKeyDown(key, ctrlOrMeta)
    \/ \E n \in NodeIds : TextReady(n)
    \/ \E n \in NodeIds : WireText(n)

SpecTyping == InitGesture /\ [][NextTyping]_vars

----------------------------------------------------------------------------
(* Persistence: objects are dropped and typed, the document is saved,      *)
(* posted, loaded at a page load and imported from a copy of the file      *)

\* the document files: up to MaxEntries image entries, each with a source
\* that resolves, an empty one or one that does not resolve
MaxEntries == 3
DocUrls == {"photo", "", "bad"}
DocumentOf(us) ==
    [images |-> [i \in 1 .. Len(us) |->
                    StoredImage(10 + i, us[i], LinePoint(i), RInt(1))],
     texts |-> <<>>, canvasPosition |-> LinePoint(2), exists |-> TRUE]
Documents ==
    {DocumentOf(us) : us \in UNION {[1 .. k -> DocUrls] : k \in 0 .. MaxEntries}}

NextPersist ==
    \/ Tick
    \/ \E url \in DropUrls, g \in DropPoints : DropImage(url, g)
    \/ \E key \in CanvasKeys : KeyDown(key)
    \/ \E n \in NodeIds : TextReady(n)
    \/ Answered /\ SaveTimerFire
    \/ Answered /\ ManualSave
    \/ \E d \in inflight : ServerPost(d)
    \/ LoadFromAPI
    \/ \E d \in {stored} : d.exists /\ ImportFromJSON(d)

SpecPersist == InitEmpty /\ [][NextPersist]_vars

----------------------------------------------------------------------------
(* The persistence endpoint on its own: any client posts any body          *)

\* What request.json() makes of the body of a POST: it throws for text that
\* is not JSON; it yields null, a number, a string, an object without
\* 'images', an object whose 'images' is not an array, or a document
BodyShapes == {"notJson", "null", "number", "string", "noImages",
               "imagesNotArray", "document"}
Bodies ==
    {[shape |-> "document", doc |-> d] : d \in Documents}
        \cup {[shape |-> sh, doc |-> NoDoc] : sh \in BodyShapes \ {"document"}}

\* JSON.stringify writes a number that is not finite as null
JsonNull == <<0, -1>>
JsonNumber(c) == IF c[2] <= 0 THEN JsonNull ELSE c
\* JSON.parse(JSON.stringify(canvasData, null, 2)): the document GET reads
\* from the file POST wrote
JsonFile(d) ==
    [images |-> [i \in 1 .. Len(d.images) |->
                    [d.images[i] EXCEPT !.x = JsonNumber(@), !.y = JsonNumber(@),
                                        !.scale = JsonNumber(@)]],
     texts |-> [i \in 1 .. Len(d.texts) |->
                    [d.texts[i] EXCEPT !.x = JsonNumber(@), !.y = JsonNumber(@),
                                       !.scale = JsonNumber(@)]],
     canvasPosition |-> Point(JsonNumber(d.canvasPosition.x),
                              JsonNumber(d.canvasPosition.y)),
     exists |-> TRUE]

\* a response of the endpoint: the status, the 'success' of a POST, the
\* document of a GET; with it the request it answers
Request(method, shape, writeFails) ==
    [method |-> method, shape |-> shape, writeFails |-> writeFails]
Response(req, status, success, doc) ==
    [type |-> "response", request |-> req, status |-> status,
     success |-> success, doc |-> doc]

\* route.ts POST with the given body; writeFails: writeFile rejects, leaving
\* the file as it was or unreadable.  request.json() and the test of
\* canvasData.images are inside the try: a throw there answers 500.
POST(body, writeFails) ==
    LET throws == body.shape \in {"notJson", "null"}
        invalid == body.shape \in {"number", "string", "noImages", "imagesNotArray"}
        req == Request("POST", body.shape, writeFails)
    IN  /\ IF throws
           THEN /\ emitted' = {Response(req, 500, FALSE, NoDoc)}
                /\ UNCHANGED stored
           ELSE IF invalid
           THEN /\ emitted' = {Response(req, 400, FALSE, NoDoc)}
                /\ UNCHANGED stored
           ELSE IF writeFails
           THEN /\ emitted' = {Response(req, 500, FALSE, NoDoc)}
                /\ stored' \in {stored, NoDoc}
           ELSE /\ emitted' = {Response(req, 200, TRUE, NoDoc)}
                /\ stored' = JsonFile(body.doc)
        /\ fired' = "POST"
        /\ UNCHANGED <<sceneVars, panVars, pressed, saveTimer, currentTool,
                       typingVars, showGeminiPrompt, clock, gestures, moves,
                       keys, inflight, ref>>

\* route.ts GET
GET ==
    /\ emitted' = {Response(Request("GET", "none", FALSE), 200, FALSE, ServerGet)}
    /\ fired' = "GET"
    /\ UNCHANGED <<sceneVars, panVars, pressed, saveTimer, currentTool,
                   typingVars, showGeminiPrompt, clock, gestures, moves, keys,
                   stored, inflight, ref>>

NextEndpoint ==
    \/ \E body \in Bodies, writeFails \in BOOLEAN : POST(body, writeFails)
    \/ GET

SpecEndpoint == InitEmpty /\ [][NextEndpoint]_vars

\* Saving a canvas of dropped images and a typed text, panned or not: the
\* sources of the images are replaced by generation results (one that
\* resolves, or one that does not), the save is issued by the button and by the
\* timer, and the request succeeds or fails
MaxSaved == 2
SavedUrls == {"wide", "bad"}
SavedScene(k, hasText, sel) ==
    [n \in NodeIds |->
        IF n <= k
        THEN [NewImageNode(TextureOf("photo"), n, LinePoint(n), "drop", NoSel)
                EXCEPT !.inContainer = TRUE, !.frameVisible = (n = sel)]
        ELSE IF n = k + 1 /\ hasText
        THEN [NewTextNode(n, LinePoint(6), "typed", NoSel, NoSel)
                EXCEPT !.inContainer = TRUE]
        ELSE NoNodeRec]
InitSave ==
    /\ \E k \in 0 .. MaxSaved, hasText \in BOOLEAN, sel \in 0 .. 1 :
          /\ sel <= k
          /\ nodes = SavedScene(k, hasText, sel)
          /\ selectedImage = IF sel = 0 THEN NoSel ELSE Sel(sel, sel)
          /\ nNodes = k + (IF hasText THEN 1 ELSE 0)
          /\ images = [i \in 1 .. k |-> ImageEntry(i, i, "photo")]
          /\ texts = IF hasText
                     THEN <<TextEntry(k + 1, k + 1, <<"a">>, EditorColor, EditorFont)>>
                     ELSE <<>>
    /\ selectedText = NoSel
    /\ pan \in {Origin, LinePoint(2)}
    /\ isPanning = FALSE
    /\ lastPointerPosition = Origin
    /\ pressed = {}
    /\ saveTimer = NoTimer
    /\ currentTool = "select"
    /\ isTyping = FALSE
    /\ currentText = <<>>
    /\ typingPosition = Origin
    /\ showGeminiPrompt = FALSE
    /\ clock = MaxNodes
    /\ gestures = 0
    /\ moves = 0
    /\ keys = 0
    /\ stored = NoDoc
    /\ inflight = {}
    /\ ref = [n \in NodeIds |-> NoRef]
    /\ emitted = {}
    /\ fired = "none"

NextSave ==
    \/ OpenPanel
    \/ \E intent \in Intents, url \in SavedUrls, g \in GeneratedPoints :
          GeminiSubmit(intent, url, g)
    \/ \E n \in NodeIds : TextReady(n)
    \/ Answered /\ SaveTimerFire
    \/ Answered /\ ManualSave
    \/ \E d \in inflight : ServerPost(d)
    \/ \E d \in inflight : ServerPostFails(d)
    \/ LoadFromAPIFails

SpecSave == InitSave /\ [][NextSave]_vars

\* Loading any document file: the first render finds it at the endpoint
InitLoad == Mounted /\ stored \in Documents \cup {NoDoc}

NextLoad ==
    \/ LoadFromAPI
    \/ \E f \in MalformedFiles : ImportMalformed(f)
    \/ \E d \in {stored} : d.exists /\ ImportFromJSON(d)
    \/ \E url \in GoodUrls, g \in DropPoints : DropImage(url, g)

SpecLoad == InitLoad /\ [][NextLoad]_vars

\* One image of any origin (loaded at the page load, imported from a file,
\* dropped, or generated onto the empty canvas) is dragged, resized and
\* scaled by the wheel, and the debounced save runs
OriginDocs == {DocumentOf(<<"photo">>)}
OriginPoints == GlobalPoints \cup GeneratedPoints
InitOrigins == Mounted /\ stored \in OriginDocs
NextOrigins ==
    \/ nNodes = 0 /\ LoadFromAPI
    \/ \E d \in {stored} : nNodes = 0 /\ ImportFromJSON(d)
    \/ \E url \in DropUrls, g \in DropPoints : nNodes = 0 /\ DropImage(url, g)
    \/ nNodes = 0 /\ OpenPanel
    \/ \E url \in DropUrls, g \in GeneratedPoints :
          nNodes = 0 /\ GeminiSubmit("create", url, g)
    \/ \E n \in NodeIds, p \in Mouse, g \in OriginPoints : BodyPointerDown(n, p, g)
    \/ \E n \in NodeIds : ClickTimerFire(n)
    \/ \E n \in NodeIds, p \in Mouse, g \in GlobalPoints : HandlePointerDown(n, p, g)
    \/ \E p \in Mouse, g \in OriginPoints : PointerMove(p, g)
    \/ \E p \in Mouse : PointerUp(p)
    \/ \E f \in WheelFactors, ctrlKey \in BOOLEAN : Wheel(f, ctrlKey)
    \/ Answered /\ SaveTimerFire
    \/ \E d \in inflight : ServerPost(d)

SpecOrigins == InitOrigins /\ [][NextOrigins]_vars

\* Saves that overlap: images are dropped one after the other, the timer
\* and the button send while an earlier request is still on its way, and
\* the requests are answered in any order
NextOverlap ==
    \/ \E url \in DropUrls, g \in DropPoints : DropImage(url, g)
    \/ SaveTimerFire
    \/ ManualSave
    \/ \E d \in inflight : ServerPost(d)
SpecOverlap == InitEmpty /\ [][NextOverlap]_vars

\* Creations next to an import: the file imported holds one image, whose
\* texture is loaded already or has to be awaited; meanwhile images are
\* dropped and texts are typed
AsyncKeys == {"t", "x", "Enter"}
InitAsync == Mounted /\ stored \in OriginDocs
NextAsync ==
    \/ Tick
    \/ \E d \in {stored} : ImportFromJSON(d)
    \/ \E d \in {stored} : ImportAwait(d)
    \/ \E d \in {stored} : ImportResume(d)
    \/ \E url \in DropUrls, g \in DropPoints : DropImage(url, g)
    \/ \E key \in AsyncKeys : KeyDown(key)
    \/ \E n \in NodeIds : TextReady(n)
SpecAsync == InitAsync /\ [][NextAsync]_vars

----------------------------------------------------------------------------
(* Properties of the gestures *)

\* the nodes of the objects in the two collections
Objects == {images[i].node : i \in 1 .. Len(images)}
           \cup {texts[i].node : i \in 1 .. Len(texts)}
\* the nodes the selection references hold
Selected == {selectedImage.node, selectedText.node} \ {NoNode}
\* minScale(obj) = max(0.05, 20 / min(intrinsicWidth, intrinsicHeight))
MinScaleOf(nd) == MathMax(<<1, 20>>,
                          RDiv(RInt(20), RInt(IntMin(nd.tex.w, nd.tex.h))))

\* C1: in every reachable state every object of the collection (image or
\* text) has minScale(obj) <= scale <= 8.
C1_ScaleWithinBounds ==
    \A n \in Objects :
        nodes[n].ready =>
            /\ ~IsNaN(nodes[n].scale)
            /\ RLe(MinScaleOf(nodes[n]), nodes[n].scale)
            /\ RLe(nodes[n].scale, RInt(8))

\* C2: in every reachable state the image selection and the text selection
\* are never both non-null.
C2_SingleSelection == ~(selectedImage # NoSel /\ selectedText # NoSel)

\* C3: in every reachable state the objects whose selection frame is visible
\* are exactly the currently selected object (none when nothing is selected).
C3_FrameMatchesSelection ==
    {n \in Objects : nodes[n].frameVisible} = Selected

\* C4: when the debounce timer of a burst of scheduleSave calls expires,
\* one save is performed, and it sends the document of the state the canvas
\* is in at that moment.
C4_TimerSavesCurrentState ==
    [][SaveTimerFire => (fired' = "saved" /\ CanvasDoc \in inflight')]_vars

\* id, position and scale of the objects of both kinds, and the pan offset
LiveDocument ==
    [images |-> [i \in 1 .. Len(images) |->
                    LET nd == nodes[images[i].node]
                    IN  <<images[i].id, nd.pos, nd.scale>>],
     texts |-> [i \in 1 .. Len(texts) |->
                    LET nd == nodes[texts[i].node]
                    IN  <<texts[i].id, nd.pos, nd.scale>>],
     pan |-> pan]
\* the stored document is the saved live document, whose sources resolve
SavedLive ==
    /\ ~SaveThrows
    /\ stored = CanvasDoc
    /\ \A i \in 1 .. Len(images) : Resolves(images[i].imageUrl)

\* C5: loading the saved live document, at a page load or by file import,
\* yields the same objects of both kinds with the same id, position and
\* scale, and the same pan offset.
C5_RoundTrip ==
    [][(SavedLive /\ (LoadFromAPI \/ ImportFromJSON(stored)))
          => LiveDocument' = LiveDocument]_vars

\* C6: Delete or Backspace with an object selected removes exactly that
\* object from its collection, leaves both selection references null and
\* leaves every other object as it was.
C6_DeleteRemovesSelected ==
    [][\A key \in {"Delete", "Backspace"} :
          (/\ ~showGeminiPrompt
           /\ Selected # {}
           /\ KeyDown(key))
          => LET n == IF selectedImage # NoSel THEN selectedImage.node
                      ELSE selectedText.node
             IN  /\ selectedImage' = NoSel
                 /\ selectedText' = NoSel
                 /\ Objects' = Objects \ {n}
                 /\ nodes'[n].destroyed
                 /\ \A m \in NodeIds \ {n} : nodes'[m] = nodes[m]]_vars

\* a step that is the pointer-up of p
IsPointerUp(p) == p \in pressed /\ p \notin pressed'
MovedOf(n, ev) == {e \in ev : e.type = "moved" /\ e.node = n}
Clamp(x, lo, hi) == MathMin(hi, MathMax(lo, x))

\* C8: a move of the pointer that drags an object puts the object, in world
\* coordinates, where it was at grab time plus the displacement of the
\* pointer since grab time (so a pointer back at its grab point puts the
\* object back at its grab position), for images and texts at any scale.
C8_DragFollowsPointer ==
    [][\A n \in NodeIds, p \in Pointers, g \in GlobalPoints :
          (/\ nodes[n].dragging /\ nodes[n].dragPointerId = p
           /\ BodyAt(g) = n
           /\ PointerMove(p, g))
          => nodes'[n].pos = PAdd(ref[n].grabPos,
                                  PSub(toLocal(g, pan'), ref[n].grabWorld))]_vars

\* C9: a move of the pointer that resizes an object sets its scale to
\* clamp(startScale * currentDistance / startDistance, minScale, 8), the
\* distances taken from the pointer to the object's centre and startScale
\* being the scale when the handle was pressed, for images and texts.
C9_ResizeFormula ==
    [][\A n \in NodeIds, p \in Pointers, g \in GlobalPoints :
          (/\ nodes[n].rootListening /\ nodes[n].resizing
           /\ nodes[n].resizePointerId = p
           /\ ref[n].startDist # RInt(0)
           /\ PointerMove(p, g))
          => LET c == getScaleConstraints(nodes[n].tex)
                 cur == CentreDistance(nodes'[n], g, pan')
             IN  nodes'[n].scale =
                    Clamp(RMul(ref[n].startScale, RDiv(cur, ref[n].startDist)),
                          c.min, c.max)]_vars

\* C10: the pointer-up of a pointer that went down on an object's body emits
\* 'moved' for that object, once and with the object's final position; no
\* other step emits 'moved' (no move, no pointer-up that ends no drag).
C10_MovedOncePerGesture ==
    [][\A n \in NodeIds :
          LET ends == \E p \in Pointers : IsPointerUp(p) /\ p \in ref[n].bodyPointers
          IN  MovedOf(n, emitted') =
                 IF ends THEN {Moved(n, nodes'[n].pos)} ELSE {}]_vars

ResizedOf(n, ev) == {e \in ev : e.type = "resized" /\ e.node = n}

\* C11: a step emits the resize notification of an object exactly when it is
\* the pointer-up of a pointer that went down on the object's handle, and
\* the notification carries the scale the object then has; in particular no
\* move emits one, and a second pointer-down on the handle changes nothing.
C11_ResizedOncePerGesture ==
    [][\A n \in NodeIds :
          LET ends == \E p \in Pointers :
                         IsPointerUp(p) /\ p \in ref[n].handlePointers
          IN  ResizedOf(n, emitted') =
                 IF ends THEN {Resized(n, nodes'[n].scale)} ELSE {}]_vars

\* C12: while pointer p drags an object, a pointer-down of another pointer
\* q on the body of the same object leaves the object dragged by p with the
\* offset captured for p.
C12_SecondPointerIgnored ==
    [][\A n \in NodeIds, q \in Pointers, g \in GlobalPoints :
          (/\ nodes[n].dragging
           /\ nodes[n].dragPointerId # q
           /\ BodyPointerDown(n, q, g))
          => /\ nodes'[n].dragging
             /\ nodes'[n].dragPointerId = nodes[n].dragPointerId
             /\ nodes'[n].dragOffset = nodes[n].dragOffset]_vars

\* C13: no object is ever dragging and resizing at the same time.
C13_DragResizeExclusive ==
    \A n \in NodeIds : ~(nodes[n].dragging /\ nodes[n].resizing)

\* C14: Escape pressed in the Typing state ends the typing session with an
\* empty buffer and creates no text, whatever the buffer holds and whether
\* the generation panel is open or not.
C14_EscapeCancelsTyping ==
    [][(isTyping /\ KeyDown("Escape"))
          => /\ ~isTyping'
             /\ currentText' = <<>>
             /\ texts' = texts
             /\ nNodes' = nNodes]_vars

\* the step adds exactly one text, of content t, at the position pos, with
\* the configured color and font
CreatesText(t, pos) ==
    /\ nNodes' = nNodes + 1
    /\ Len(texts') = Len(texts) + 1
    /\ SubSeq(texts', 1, Len(texts)) = texts
    /\ LET new == texts'[Len(texts')]
       IN  /\ new.text = t
           /\ new.color = EditorColor
           /\ new.fontFamily = EditorFont
           /\ nodes'[new.node].kind = "text"
           /\ nodes'[new.node].inContainer
           /\ nodes'[new.node].pos = pos
CreatesNothing == texts' = texts /\ nNodes' = nNodes

\* C15: Enter pressed in the Typing state ends the typing session with an
\* empty buffer; a non-empty buffer becomes exactly one text at the entry
\* position with the buffer as content, an empty buffer creates nothing.
C15_EnterCommitsBuffer ==
    [][(isTyping /\ KeyDown("Enter"))
          => /\ ~isTyping'
             /\ currentText' = <<>>
             /\ IF currentText # <<>>
                THEN CreatesText(currentText, typingPosition)
                ELSE CreatesNothing]_vars
\* C15 as the code has it: the buffer is trimmed first; a buffer with a
\* character other than white space becomes exactly one text whose content
\* is the trimmed buffer, a blank buffer creates nothing.
C15_EnterCommitsTrimmed ==
    [][(isTyping /\ KeyDown("Enter"))
          => /\ ~isTyping'
             /\ currentText' = <<>>
             /\ IF Trim(currentText) # <<>>
                THEN CreatesText(Trim(currentText), typingPosition)
                ELSE CreatesNothing]_vars
\* a text has just been committed from a buffer that was not blank
C15_Witness ==
    /\ ~isTyping /\ keys > 0
    /\ \E i \in 1 .. Len(texts) :
          /\ texts[i].text = <<"t">>
          /\ nodes[texts[i].node].pos = PSub(ViewportCentre, pan)

\* C16: while typing with a non-empty buffer, a pointer-down on the empty
\* background, with either tool, commits the buffer: one text with the buffer's
\* content at the entry position, typing ended, buffer cleared.
C16_BackgroundClickCommits ==
    [][(/\ isTyping
        /\ Trim(currentText) # <<>>
        /\ \E p \in Pointers, g \in GlobalPoints : BackgroundPointerDown(p, g))
          => /\ ~isTyping'
             /\ currentText' = <<>>
             /\ CreatesText(Trim(currentText), typingPosition)]_vars

\* C17: typing never starts while the generation panel is open, whichever way
\* it is entered (the T key or a click with the text tool), and no second
\* typing session starts while one is active: an active session keeps its
\* entry position.
C17_TypingEntryGuarded ==
    [][/\ (~isTyping /\ isTyping') => ~showGeminiPrompt
       /\ (isTyping /\ isTyping') => typingPosition' = typingPosition]_vars

\* the entries of the collection that have a non-empty source, in order
ValidImages(arr) == SelectSeq(arr, LAMBDA e : e.imageUrl # "")
\* d has one entry per valid image and per text, in collection order, with
\* the object's id, content, position and scale, and the pan offset
SerializesAll(d) ==
    LET valid == ValidImages(images)
    IN  /\ d.canvasPosition = pan
        /\ Len(d.images) = Len(valid)
        /\ \A i \in 1 .. Len(valid) :
              /\ d.images[i].id = valid[i].id
              /\ d.images[i].imageUrl = valid[i].imageUrl
              /\ d.images[i].x = nodes[valid[i].node].pos.x
              /\ d.images[i].y = nodes[valid[i].node].pos.y
              /\ d.images[i].scale = nodes[valid[i].node].scale
        /\ Len(d.texts) = Len(texts)
        /\ \A i \in 1 .. Len(texts) :
              /\ d.texts[i].id = texts[i].id
              /\ d.texts[i].text = texts[i].text
              /\ d.texts[i].x = nodes[texts[i].node].pos.x
              /\ d.texts[i].y = nodes[texts[i].node].pos.y
              /\ d.texts[i].scale = nodes[texts[i].node].scale

\* C18: every save (by the button, or by the timer once its test passes)
\* sends a document with one entry per image with a non-empty source and per
\* text, in collection order, and the pan offset; an image with an invalid
\* source is left out and the save is not abandoned.
C18_SaveSerializesAll ==
    [][(fired' \in {"manual", "saved", "threw"})
          => \E d \in inflight' \ inflight : SerializesAll(d)]_vars

\* C19: an import of a malformed file (not JSON, or without a list of
\* objects) is rejected and leaves the canvas as it was: the collection, the
\* displayed nodes, the selection and the pan offset.
C19_MalformedLeavesState ==
    [][(fired' = "importRejected")
          => /\ images' = images /\ texts' = texts
             /\ nodes' = nodes
             /\ selectedImage' = selectedImage /\ selectedText' = selectedText
             /\ pan' = pan]_vars

\* C20: a save or load request that fails (rejected fetch, or a response
\* that is not ok) changes nothing in memory: the collection, the nodes with
\* their positions and scales, the selection, the pan offset and the pending
\* timer are as before; the error is caught, and a save can be issued again:
\* the failed request is no longer in flight.
C20_FailureKeepsState ==
    [][(fired' \in {"saveFailed", "loadFailed"})
          => /\ UNCHANGED <<sceneVars, panVars, typingVars, saveTimer, stored>>
             /\ inflight' \subseteq inflight
             /\ (fired' = "saveFailed")
                  => Cardinality(inflight') < Cardinality(inflight)]_vars
\* a save of a canvas with an image has failed, nothing is stored, and the
\* image is still there
C20_Witness ==
    /\ fired = "saveFailed"
    /\ images # <<>>
    /\ ~stored.exists
    /\ inflight = {}

\* C21: the completion of an asynchronous operation on an object (the 300 ms
\* single-click timer, the end of a text's font wait, the delayed attachment
\* of a text's handlers) never writes to a node that was destroyed in the
\* meantime and never selects it.
C21_NoWriteAfterDestroy ==
    [][\A n \in NodeIds :
          (/\ nodes[n].destroyed
           /\ (ClickTimerFire(n) \/ TextReady(n) \/ WireText(n)))
             => /\ nodes'[n] = nodes[n]
                /\ selectedImage' = selectedImage
                /\ selectedText' = selectedText]_vars

\* the ids of the objects of the two collections, in order
CollectionIds ==
    [i \in 1 .. Len(images) |-> images[i].id]
        \o [i \in 1 .. Len(texts) |-> texts[i].id]
\* C22: in every reachable state the objects of the collection have pairwise
\* distinct ids, also when two of them are created without the clock
\* advancing in between.
C22_DistinctIds ==
    \A i, j \in 1 .. Len(CollectionIds) :
        i # j => CollectionIds[i] # CollectionIds[j]

\* the response just sent
ResponseOf(ev) == CHOOSE e \in ev : e.type = "response"
\* C23: POST answers { success: true } only after the document was written;
\* it answers 400 and leaves the file unchanged for every body whose object
\* list is missing or is not a sequence, including a body that is not an
\* object at all; it answers 500 only when the write itself fails.
C23_PostContract ==
    [][\A body \in Bodies, writeFails \in BOOLEAN :
          (POST(body, writeFails)
             /\ ResponseOf(emitted').request = Request("POST", body.shape, writeFails))
            => LET r == ResponseOf(emitted')
               IN  /\ r.success => (r.status = 200 /\ stored' = body.doc)
                   /\ (body.shape \in {"null", "number", "string", "noImages",
                                       "imagesNotArray"})
                        => (r.status = 400 /\ stored' = stored)
                   /\ (r.status = 500) => writeFails]_vars

\* C24: GET never fails.  The file is only ever changed by a POST, and a
\* successful POST of D makes D the file; a GET answers 200 with the empty
\* default document (no objects, offset (0,0)) while there is no file, and
\* with the file's document, unchanged, otherwise, and leaves the file alone.
C24_GetContract ==
    [][/\ (stored' # stored) => fired' = "POST"
       /\ \A body \in Bodies :
            (/\ fired' = "POST"
             /\ ResponseOf(emitted').request.shape = body.shape
             /\ ResponseOf(emitted').success
             /\ POST(body, FALSE))
               => stored' = body.doc
       /\ (fired' = "GET")
            => LET r == ResponseOf(emitted')
               IN  /\ r.status = 200
                   /\ stored' = stored
                   /\ IF stored.exists
                      THEN r.doc = stored
                      ELSE /\ r.doc.images = <<>>
                           /\ r.doc.canvasPosition = Origin]_vars
\* a GET has returned a posted document with three entries
C24_Witness ==
    /\ fired = "GET"
    /\ stored.exists
    /\ Len(ResponseOf(emitted).doc.images) = MaxEntries
    /\ ResponseOf(emitted).doc.canvasPosition = LinePoint(2)

\* C25: an image created from a texture of w x h starts with scale
\* min(1, 200 / max(w, h)): its longest side is shown at no more than 200,
\* and an image no larger than 200 keeps scale 1.
C25_InitialScale ==
    [][\A url \in GoodUrls, g \in DropPoints :
          DropImage(url, g)
            => LET longest == IntMax(TextureOf(url).w, TextureOf(url).h)
                   sc == nodes'[nNodes'].scale
               IN  /\ sc = MathMin(RInt(1), Rat(200, longest))
                   /\ RLe(RMul(sc, RInt(longest)), RInt(200))
                   /\ (longest <= 200) => sc = RInt(1)]_vars
\* an image of 800 x 400 has been dropped and is shown at a quarter
C25_Witness ==
    \E i \in 1 .. Len(images) :
        /\ images[i].imageUrl = "wide"
        /\ nodes[images[i].node].origin = "drop"
        /\ nodes[images[i].node].tex = [w |-> 800, h |-> 400]
        /\ nodes[images[i].node].scale = <<1, 4>>

\* C26: after a pointer-down on the empty background, with either tool, no
\* object is selected and no selection frame is visible.
C26_BackgroundDeselects ==
    [][(\E p \in Pointers, g \in GlobalPoints : BackgroundPointerDown(p, g))
          => /\ selectedImage' = NoSel
             /\ selectedText' = NoSel
             /\ \A n \in Objects : ~nodes'[n].frameVisible]_vars

\* a generation result of the given intent has had exactly its one effect: a
\* new image was appended and nothing else changed, or the source of one
\* image was replaced and its node got the texture, nothing else
GenerationEffect(intent, url) ==
    /\ texts' = texts
    /\ \A n \in 1 .. nNodes :
          /\ nodes'[n].pos = nodes[n].pos
          /\ nodes'[n].scale = nodes[n].scale
          /\ nodes'[n].id = nodes[n].id
    /\ IF intent = "create"
       THEN /\ Len(images') = Len(images) + 1
            /\ SubSeq(images', 1, Len(images)) = images
            /\ images'[Len(images')].imageUrl = url
            /\ \A n \in 1 .. nNodes : nodes'[n] = nodes[n]
       ELSE /\ nNodes' = nNodes
            /\ \E i \in 1 .. Len(images) :
                  /\ images' = [images EXCEPT ![i].imageUrl = url]
                  /\ nodes'[images[i].node].tex = TextureOf(url)
                  /\ \A n \in 1 .. nNodes :
                        n # images[i].node => nodes'[n] = nodes[n]
\* C27: a successful generation response (a source that decodes) has exactly
\* one effect, chosen by the intent of the prompt: 'create' adds one image and
\* changes no existing object, 'update' replaces the source of one existing
\* image and adds none; the result is never dropped.
C27_GenerationHasOneEffect ==
    [][\A intent \in Intents, url \in SavedUrls \cap GoodUrls,
          g \in GeneratedPoints :
          GeminiSubmit(intent, url, g) => GenerationEffect(intent, url)]_vars

\* C28: at most one save timer is active, and it is the 2000 ms timer that
\* the most recent debouncedAutoSave() put into saveDebounceRef: every call
\* cancels the timer of the call before it, so a cancelled timer is not among
\* the active ones and never fires, and the timer that fires was started by
\* the most recent call.
C28_OneSaveTimer ==
    /\ Cardinality(saveTimer.timers) <= 1
    /\ \A t \in saveTimer.timers :
          t.handle = saveTimer.ref /\ t.delay = SaveDelay
\* one of two dropped images was deleted: the handler scheduled a save, the
\* effect of the render after it scheduled another, and the effect's timer
\* is the only active one
C28_Witness ==
    /\ nNodes = 2
    /\ Len(images) = 1
    /\ saveTimer.timers = {[handle |-> saveTimer.ref, delay |-> SaveDelay,
                            imgLen |-> 1, txtLen |-> 0]}

\* C29: the move and up listeners of a resize are on the shared ancestor
\* exactly while the object is resizing: an object that is not resizing has
\* none of its listeners there, whatever handle presses, releases and
\* deletions came before.
C29_ListenersWhileResizing ==
    \A n \in NodeIds : nodes[n].rootListening <=> nodes[n].resizing

\* the node of the selected object, an image or a text
SelectedNode ==
    IF selectedImage # NoSel THEN selectedImage.node ELSE selectedText.node
\* the scale limits of a node of either kind
ScaleLimits(nd) ==
    IF nd.kind = "text" THEN [min |-> <<1, 10>>, max |-> RInt(textMaxScale)]
    ELSE getScaleConstraints(nd.tex)
\* C30: with an object of either kind selected, a wheel event sets its scale
\* to the clamped product of its scale and the wheel factor and schedules a
\* save; it changes no other scale, no position and no dragging or resizing
\* flag; with nothing selected it changes nothing and schedules no save.
C30_WheelScalesSelection ==
    [][\A f \in WheelFactors, ctrlKey \in BOOLEAN :
          Wheel(f, ctrlKey) =>
            IF SelectedNode = NoNode
            THEN nodes' = nodes /\ saveTimer' = saveTimer
            ELSE LET n == SelectedNode
                     lim == ScaleLimits(nodes[n])
                 IN  /\ nodes' = [nodes EXCEPT ![n].scale =
                                     Clamp(RMul(@, WheelFactor(f, ctrlKey)),
                                           lim.min, lim.max)]
                     /\ saveTimer' = ScheduleSave(saveTimer, images, texts)]_vars

\* C31: while the background is panned each move of the pointer adds the
\* pointer's displacement since the previous event of the gesture to the pan
\* offset and schedules a save, and the world position and the scale of every
\* object stay; a release ends the pan, and moves that follow leave the
\* offset unchanged.
C31_PanFollowsPointer ==
    [][/\ \A p \in Mouse, g \in GlobalPoints :
             PointerMove(p, g) =>
               IF isPanning
               THEN /\ pan' = Point(RAdd(pan.x, RSub(g.x, lastPointerPosition.x)),
                                    RAdd(pan.y, RSub(g.y, lastPointerPosition.y)))
                    /\ lastPointerPosition' = g
                    /\ saveTimer' = ScheduleSave(saveTimer, images, texts)
                    /\ \A n \in NodeIds : /\ nodes'[n].pos = nodes[n].pos
                                          /\ nodes'[n].scale = nodes[n].scale
               ELSE pan' = pan
       /\ \A p \in Mouse : PointerUp(p) => ~isPanning' /\ pan' = pan
       /\ isPanning => pressed # {}
       /\ \A p \in Mouse, g \in GlobalPoints :
             BackgroundPointerDown(p, g)
               => pan' = pan /\ (isPanning' => lastPointerPosition' = g)]_vars
\* the background was pressed at (44,33) with the offset at (0,0) and the
\* pointer has moved to (12,9) and back: the offset was (-32,-24) and is
\* (0,0) again, and a save is scheduled
C31_Witness ==
    /\ isPanning
    /\ moves = 2
    /\ pan = Origin
    /\ lastPointerPosition = LinePoint(11)
    /\ saveTimer.timers # {}

\* the buffer after a key pressed in the Typing state that does not leave it
BufferAfter(buf, key, ctrlOrMeta) ==
    IF key = "Backspace" THEN SubSeq(buf, 1, Len(buf) - 1)
    ELSE IF key \in {"t", "T", "x", " "} /\ ~ctrlOrMeta THEN buf \o <<key>>
    ELSE buf
\* C32: the buffer is empty when Typing is entered (the key that enters it is
\* not added); in Typing a character key without ctrl/meta appends that
\* character, Backspace removes the last character (none of an empty
\* buffer), every other key that does not end Typing leaves the buffer as it
\* is, and no other event edits it.
C32_BufferFollowsKeys ==
    [][/\ (~isTyping /\ isTyping') => currentText' = <<>>
       /\ \A key \in TypingKeys \ {"Enter", "Escape"}, ctrlOrMeta \in BOOLEAN :
             (isTyping /\ handleKeyDown(key, ctrlOrMeta))
                => /\ isTyping'
                   /\ currentText' = BufferAfter(currentText, key, ctrlOrMeta)
       /\ (isTyping /\ keys' = keys)
             => \/ currentText' = currentText
                \/ isTyping' /\ currentText' = <<>>]_vars
\* three keys were pressed and the buffer holds one x
C32_Witness ==
    /\ isTyping
    /\ keys = MaxKeys
    /\ currentText = <<"x">>

\* the nodes of the images and texts of the collection
CollectionNodes ==
    {images[i].node : i \in 1 .. Len(images)}
        \cup {texts[i].node : i \in 1 .. Len(texts)}
\* C33: the release that completes a drag or a resize of an object of the
\* collection, and a wheel change of the selected object, schedule a save:
\* the timer of a debouncedAutoSave() of the current render is active
\* afterwards, whatever the origin of the object.
C33_ChangeSchedulesSave ==
    [][/\ \A p \in Mouse :
             (/\ PointerUp(p)
              /\ \E n \in CollectionNodes :
                    \/ nodes[n].dragging /\ nodes[n].dragPointerId = p
                    \/ nodes[n].resizing /\ nodes[n].resizePointerId = p)
                => /\ saveTimer'.timers # {}
                   /\ saveTimer' = ScheduleSave(saveTimer, images, texts)
       /\ \A f \in WheelFactors, ctrlKey \in BOOLEAN :
             (Wheel(f, ctrlKey) /\ selectedImage.node \in CollectionNodes)
                => /\ saveTimer'.timers # {}
                   /\ saveTimer' = ScheduleSave(saveTimer, images, texts)]_vars

\* C34: a press on the body or on the resize handle of an object, image or
\* text, with either tool, starts no pan and does not enter typing mode, and
\* the pan offset does not change while an object is dragged or resized.
C34_ObjectPressIsNotBackground ==
    [][/\ \A n \in NodeIds, p \in Mouse, g \in GlobalPoints :
             (BodyPointerDown(n, p, g) \/ HandlePointerDown(n, p, g))
                => /\ isPanning' = isPanning
                   /\ isTyping' = isTyping
                   /\ currentText' = currentText
                   /\ typingPosition' = typingPosition
                   /\ pan' = pan
       /\ (\E n \in CollectionNodes : nodes[n].dragging \/ nodes[n].resizing)
             => pan' = pan]_vars

\* a save whose document is the in-memory document has been issued
SaveIssued == CanvasDoc \in inflight \/ stored = CanvasDoc
\* C35: once an object has been created, an in-memory document that no
\* issued save carries does not stay so for ever: when the events stop, a
\* save of the in-memory document is issued; this includes the first object
\* on an empty canvas and the deletion of the last one.
C35_ChangeIsEventuallySaved ==
    (nNodes > 0 /\ ~SaveIssued) ~> SaveIssued

\* the selection sel is empty or is a live object of the collection arr
SelectionLive(sel, arr) ==
    \/ sel = NoSel
    \/ /\ \E i \in 1 .. Len(arr) : arr[i].node = sel.node
       /\ ~nodes[sel.node].destroyed
\* C36: in every reachable state the selected image and the selected text
\* are each either none or an object that is in the collection and is not
\* destroyed.
C36_SelectionIsLive ==
    /\ SelectionLive(selectedImage, images)
    /\ SelectionLive(selectedText, texts)

\* the nodes shown on the surface: children of the container, not destroyed
DisplayedNodes ==
    {n \in NodeIds : nodes[n].inContainer /\ ~nodes[n].destroyed}
\* C37: the nodes displayed on the surface are exactly the nodes of the
\* collection that a save serializes: no node is displayed without being in
\* the collection, no entry of the collection refers to a destroyed node.
C37_DisplayedIsCollection ==
    DisplayedNodes = CollectionNodes

\* C38: while the typing controller is typing, no key press removes an
\* object, destroys a node or changes the selection, and Backspace removes
\* the last character of the buffer and does nothing else, also when an
\* image or a text is selected.
C38_TypingKeysSpareObjects ==
    [][\A key \in TypingKeys, ctrlOrMeta \in BOOLEAN :
          (isTyping /\ handleKeyDown(key, ctrlOrMeta))
             => /\ CollectionNodes \subseteq CollectionNodes'
                /\ selectedImage' = selectedImage
                /\ selectedText' = selectedText
                /\ \A n \in NodeIds : nodes'[n].destroyed = nodes[n].destroyed
                /\ key = "Backspace"
                     => /\ currentText' = BufferAfter(currentText, key, ctrlOrMeta)
                        /\ isTyping']_vars

\* C39: when several saves are in flight at once, an earlier snapshot never
\* overwrites a later one.  While images are only added, a later snapshot
\* holds at least the images of an earlier one: the file never goes back to
\* a document with fewer images, and once every request has been answered it
\* holds as many images as the largest snapshot sent.
C39_LastSaveWins ==
    [][\A d \in inflight :
          ServerPost(d)
             => /\ Len(stored'.images) >= Len(stored.images)
                /\ inflight' = {}
                     => \A e \in inflight : Len(stored'.images) >= Len(e.images)]_vars

\* the pointer p is not the one a drag or a resize of nd has captured; for
\* an Idle object this is every pointer
NotCaptured(nd, p) == p # nd.dragPointerId /\ p # nd.resizePointerId
\* C40: a pointer-move or pointer-up event of a pointer that an object has
\* not captured leaves the object's position, scale, captured identifiers
\* and dragging and resizing flags unchanged and emits no notification for
\* it; this includes every such event while the object is Idle.
C40_ForeignPointerIsIgnored ==
    [][\A n \in NodeIds, p \in Pointers :
          (/\ Live(nodes[n])
           /\ NotCaptured(nodes[n], p)
           /\ (PointerUp(p) \/ \E g \in GlobalPoints : PointerMove(p, g)))
             => /\ nodes'[n].pos = nodes[n].pos
                /\ nodes'[n].scale = nodes[n].scale
                /\ nodes'[n].dragPointerId = nodes[n].dragPointerId
                /\ nodes'[n].resizePointerId = nodes[n].resizePointerId
                /\ nodes'[n].dragging = nodes[n].dragging
                /\ nodes'[n].resizing = nodes[n].resizing
                /\ \A e \in emitted' : e.node # n]_vars
\* pointer 2 holds the drag of an object whose 'moved' and 'resized' are
\* listened to, two pointers went down in the run and only pointer 2 is still
\* down, and no save was scheduled: the pointer-up that happened ended no
\* drag and no resize, so it came from a pointer the object had not captured
C40_Witness ==
    \E n \in NodeIds :
        /\ Live(nodes[n]) /\ HasListeners(nodes[n])
        /\ nodes[n].dragging /\ nodes[n].dragPointerId = 2
        /\ pressed = {2}
        /\ gestures = 2
        /\ saveTimer = NoTimer

\* the id and source of an image entry, stored or live
IdAndUrl(arr) == [i \in 1 .. Len(arr) |-> <<arr[i].id, arr[i].imageUrl>>]
\* the stored image entries whose source is a decodable image
ValidEntries(arr) == SelectSeq(arr, LAMBDA e : e.imageUrl \in GoodUrls)
IsLoad == LoadFromAPI \/ (stored.exists /\ ImportFromJSON(stored))

\* C7: loading a document (at page load or by import) materializes exactly
\* the image entries whose source resolves, in document order, each as a
\* node in the container, and the load ends normally; an entry that fails
\* does not keep a later one from loading.
C7_LoadSkipsInvalid ==
    [][IsLoad =>
          /\ IdAndUrl(images') = IdAndUrl(ValidEntries(ServerGet.images))
          /\ \A i \in 1 .. Len(images') : Live(nodes'[images'[i].node])
          /\ fired' \in {"loaded", "imported"}]_vars
\* a document of three entries whose second does not resolve has been loaded
\* as two images
C7_Witness ==
    /\ fired \in {"loaded", "imported"}
    /\ Len(stored.images) = 3
    /\ stored.images[1].imageUrl = "photo"
    /\ stored.images[2].imageUrl = "bad"
    /\ stored.images[3].imageUrl = "photo"
    /\ IdAndUrl(images) = <<<<11, "photo">>, <<13, "photo">>>>

====
